---- MODULE Spec2Model ----
(***************************************************************************)
(* Model of the serverless e-commerce API: the auth handlers (register,    *)
(* login), the product and order handlers, the two authorization guards,   *)
(* the response builder and the single-table store they share.             *)
(*                                                                         *)
(* A JavaScript string is a sequence of chunks (the literal "Bearer ", a   *)
(* signed token, other text); an optional value carries a `defined` flag.  *)
(* One Lambda invocation is one process; a handler is split only at the    *)
(* store calls it awaits.                                                  *)
(***************************************************************************)
EXTENDS Integers, Sequences, FiniteSets, TLC

(* ------------------------------ bounds -------------------------------- *)
NumProcs == 2
MaxUuid == 3
MaxClock == 24

(* ------------------------- program constants -------------------------- *)
TokenLifetime == 24
BcryptRounds == 10
MinPasswordLen == 8
MinNameLen == 2
MaxNameLen == 50
MantissaBits == 53

Procs == 1..NumProcs
ClockStep == TokenLifetime

(* ------------------------- JavaScript values -------------------------- *)
Undefined == [defined |-> FALSE, str |-> <<>>]
Str(s) == [defined |-> TRUE, str |-> s]
Truthy(v) == v.defined /\ v.str # <<>>
Or(a, b) == IF Truthy(a) THEN a ELSE b

BearerChunk == [lit |-> "Bearer "]
Text(t) == <<[lit |-> t]>>
Jwt(t) == <<[jwt |-> t]>>

RECURSIVE RemoveFirst(_, _)
RemoveFirst(s, c) ==
  IF s = <<>> THEN <<>>
  ELSE IF Head(s) = c THEN Tail(s)
  ELSE <<Head(s)>> \o RemoveFirst(Tail(s), c)

StartsWithBearer(s) == Len(s) >= 1 /\ Head(s) = BearerChunk
Substring7(s) == Tail(s)
ReplaceBearer(s) == RemoveFirst(s, BearerChunk)

(* ------------------------------ tokens -------------------------------- *)
ServerKey == Str(Text("server-secret"))
ForgedKey == Str(Text("other-secret"))
Secrets == {ServerKey, Undefined}

JwtThrows == [threw |-> TRUE]
JwtOk(payload) == [threw |-> FALSE, payload |-> payload]

JwtSign(claims, key, expiresIn, clock) ==
  IF ~Truthy(key) THEN JwtThrows
  ELSE JwtOk([userId |-> claims.userId, email |-> claims.email,
              iat |-> clock, exp |-> clock + expiresIn, key |-> key])

JwtVerify(s, key, clock) ==
  IF ~Truthy(key) THEN JwtThrows
  ELSE IF Len(s) # 1 \/ "jwt" \notin DOMAIN s[1] THEN JwtThrows
  ELSE IF s[1].jwt.key # key THEN JwtThrows
  ELSE IF clock >= s[1].jwt.exp THEN JwtThrows
  ELSE JwtOk([userId |-> s[1].jwt.userId, email |-> s[1].jwt.email,
              iat |-> s[1].jwt.iat, exp |-> s[1].jwt.exp])

Null == [isNull |-> TRUE]
Decoded(payload) == [isNull |-> FALSE, userId |-> payload.userId, email |-> payload.email,
                     iat |-> payload.iat, exp |-> payload.exp]

(* --------------------------- response.js ------------------------------ *)
response(statusCode, body) == [statusCode |-> statusCode, body |-> body]
success(data) == response(200, [success |-> TRUE, data |-> data])
created(data) == response(201, [success |-> TRUE, data |-> data])
badRequest(message) == response(400, [success |-> FALSE, error |-> message])
unauthorized(message) == response(401, [success |-> FALSE, error |-> message])
\* As notFound, with the message in the place of the data.
notFound_AsData(message) == response(404, [success |-> TRUE, data |-> message])
notFound(message) == response(404, [success |-> FALSE, error |-> message])
serverError(message) == response(500, [success |-> FALSE, error |-> message])

(* ----------------------------- auth.js -------------------------------- *)
\* As verifyToken, without its try/catch.
verifyToken_Raises(token, key, clock) ==
  LET r == JwtVerify(token, key, clock) IN
  IF r.threw THEN [threw |-> TRUE, value |-> Null]
  ELSE [threw |-> FALSE, value |-> Decoded(r.payload)]

\* utils/auth.js verifyToken: a missing secret and a failed jwt.verify are both
\* caught inside and become null.
verifyToken(token, key, clock) ==
  LET r == JwtVerify(token, key, clock) IN
  IF ~Truthy(key) THEN [threw |-> FALSE, value |-> Null]
  ELSE IF r.threw THEN [threw |-> FALSE, value |-> Null]
  ELSE [threw |-> FALSE, value |-> Decoded(r.payload)]

authHeaderOf(event) == Or(event.headers.Authorization, event.headers.authorization)

\* As authenticateToken, without the check of the "Bearer " prefix.
authenticateToken_NoFormatCheck(event, key, clock) ==
  LET authHeader == Or(event.headers.Authorization, event.headers.authorization) IN
  IF ~Truthy(authHeader)
  THEN [isValid |-> FALSE, threw |-> FALSE,
        response |-> unauthorized("Authorization header required")]
  ELSE LET r == JwtVerify(ReplaceBearer(authHeader.str), key, clock) IN
       IF r.threw
       THEN [isValid |-> FALSE, threw |-> FALSE,
             response |-> unauthorized("Invalid or expired token")]
       ELSE [isValid |-> TRUE, threw |-> FALSE, user |-> Decoded(r.payload)]

authenticateToken(event, key, clock) ==
  LET authHeader == authHeaderOf(event) IN
  IF ~Truthy(authHeader)
  THEN [isValid |-> FALSE, threw |-> FALSE,
        response |-> unauthorized("Authorization header required")]
  ELSE IF ~StartsWithBearer(authHeader.str)
  THEN [isValid |-> FALSE, threw |-> FALSE,
        response |-> unauthorized("Invalid authorization format. Use: Bearer <token>")]
  ELSE LET decoded == verifyToken(Substring7(authHeader.str), key, clock) IN
       IF decoded.threw THEN [isValid |-> FALSE, threw |-> TRUE]
       ELSE IF decoded.value.isNull
       THEN [isValid |-> FALSE, threw |-> FALSE,
             response |-> unauthorized("Invalid or expired token")]
       ELSE [isValid |-> TRUE, threw |-> FALSE, user |-> decoded.value]

\* handlers/orders.js verifyToken and the guard written out in each order handler.
ordersVerifyToken(token, key, clock) ==
  LET r == JwtVerify(token, key, clock) IN
  IF r.threw THEN [threw |-> FALSE, value |-> Null]
  ELSE [threw |-> FALSE, value |-> Decoded(r.payload)]

ordersGuard(event, key, clock) ==
  LET authHeader == authHeaderOf(event) IN
  IF ~Truthy(authHeader)
  THEN [isValid |-> FALSE, threw |-> FALSE,
        response |-> unauthorized("Authorization header required")]
  ELSE LET decoded == ordersVerifyToken(ReplaceBearer(authHeader.str), key, clock) IN
       IF decoded.threw THEN [isValid |-> FALSE, threw |-> TRUE]
       ELSE IF decoded.value.isNull
       THEN [isValid |-> FALSE, threw |-> FALSE, response |-> unauthorized("Invalid token")]
       ELSE [isValid |-> TRUE, threw |-> FALSE, user |-> decoded.value]
(* --------------------------- request values --------------------------- *)
\* A string field of a JSON body, by what the schemas look at.
NoVal == [defined |-> FALSE]
StrVal(text, len, emailFormat, lower, upper, digit, special) ==
  [defined |-> TRUE, text |-> text, len |-> len, emailFormat |-> emailFormat,
   lower |-> lower, upper |-> upper, digit |-> digit, special |-> special]

EmailA == StrVal("a@x.com", 7, TRUE, TRUE, FALSE, FALSE, TRUE)
EmailB == StrVal("b@x.com", 7, TRUE, TRUE, FALSE, FALSE, TRUE)
EmailBad == StrVal("a.x.com", 7, FALSE, TRUE, FALSE, FALSE, TRUE)
PwA == StrVal("Abc12345!", 9, FALSE, TRUE, TRUE, TRUE, TRUE)
PwB == StrVal("Xyz98765!", 9, FALSE, TRUE, TRUE, TRUE, TRUE)
PwWeak == StrVal("abc12345", 8, FALSE, TRUE, FALSE, TRUE, FALSE)
PwShort == StrVal("Ab1!", 4, FALSE, TRUE, TRUE, TRUE, TRUE)
NameAnn == StrVal("Ann", 3, FALSE, TRUE, TRUE, FALSE, FALSE)
NameShort == StrVal("A", 1, FALSE, FALSE, TRUE, FALSE, FALSE)

Emails == {EmailA, EmailB}
Passwords == {PwA, PwB}

\* event.body: absent, text that JSON.parse rejects, or a JSON object.
BodyAbsent == [kind |-> "absent"]
BodyMalformed == [kind |-> "malformed"]
BodyJson(value) == [kind |-> "json", value |-> value]
\* event.body is null (a request without a body, as API Gateway hands it over):
\* JSON.parse(null) is null.
BodyNull == [kind |-> "null"]
JsonParseThrows(body) == body.kind \in {"absent", "malformed"}
\* const { email, password, name } = null throws a TypeError.
DestructureThrows(body) == body.kind = "null"

RegisterBodies ==
  {BodyJson([email |-> e, password |-> pw, name |-> NameAnn]) :
      e \in Emails, pw \in Passwords}
  \cup {BodyJson([email |-> EmailBad, password |-> PwA, name |-> NameAnn]),
        BodyJson([email |-> EmailA, password |-> PwWeak, name |-> NameAnn]),
        BodyJson([email |-> EmailA, password |-> PwShort, name |-> NameAnn]),
        BodyJson([email |-> EmailA, password |-> PwA, name |-> NameShort]),
        BodyJson([email |-> EmailA, password |-> PwA, name |-> NoVal]),
        BodyJson([email |-> EmailB, password |-> NoVal, name |-> NameAnn]),
        BodyAbsent, BodyMalformed}

LoginBodies ==
  {BodyJson([email |-> e, password |-> pw]) : e \in Emails, pw \in Passwords \cup {PwWeak}}
  \cup {BodyJson([email |-> EmailBad, password |-> PwA]),
        BodyJson([email |-> EmailA, password |-> NoVal]),
        BodyAbsent, BodyMalformed}

(* ----------------------------- schemas -------------------------------- *)
NoError == [isError |-> FALSE]
JoiError(message) == [isError |-> TRUE, message |-> message]
\* Joi.object(...).validate(null)
ObjectBaseError == JoiError("\"value\" must be of type object")

emailRule(v) ==
  IF ~v.defined THEN JoiError("\"email\" is required")
  ELSE IF v.len = 0 THEN JoiError("\"email\" is not allowed to be empty")
  ELSE IF ~v.emailFormat THEN JoiError("\"email\" must be a valid email")
  ELSE NoError

registerPasswordRule(v) ==
  IF ~v.defined THEN JoiError("\"password\" is required")
  ELSE IF v.len = 0 THEN JoiError("\"password\" is not allowed to be empty")
  ELSE IF v.len < MinPasswordLen
  THEN JoiError("\"password\" length must be at least 8 characters long")
  ELSE IF ~(v.lower /\ v.upper /\ v.digit /\ v.special)
  THEN JoiError("Password must be at least 8 characters long and contain at least one lowercase letter, one uppercase letter, one number, and one special character")
  ELSE NoError

nameRule(v) ==
  IF ~v.defined THEN JoiError("\"name\" is required")
  ELSE IF v.len = 0 THEN JoiError("\"name\" is not allowed to be empty")
  ELSE IF v.len < MinNameLen
  THEN JoiError("\"name\" length must be at least 2 characters long")
  ELSE IF v.len > MaxNameLen
  THEN JoiError("\"name\" length must be less than or equal to 50 characters long")
  ELSE NoError

loginPasswordRule(v) ==
  IF ~v.defined THEN JoiError("\"password\" is required")
  ELSE IF v.len = 0 THEN JoiError("\"password\" is not allowed to be empty")
  ELSE NoError

\* Joi stops at the first failing key, in the order the schema lists them.
FirstError(errors) ==
  IF \E i \in 1..Len(errors) : errors[i].isError
  THEN errors[CHOOSE i \in 1..Len(errors) :
                errors[i].isError /\ \A j \in 1..(i - 1) : ~errors[j].isError]
  ELSE NoError

registerSchema(v) ==
  FirstError(<<emailRule(v.email), registerPasswordRule(v.password), nameRule(v.name)>>)

loginSchema(v) == FirstError(<<emailRule(v.email), loginPasswordRule(v.password)>>)

(* ------------------------------ bcrypt -------------------------------- *)
bcryptHash(pw, rounds) == [bcrypt |-> pw.text, rounds |-> rounds]
bcryptCompare(pw, hash) == hash.bcrypt = pw.text

(* --------------------------- dynamodb.js ------------------------------ *)
\* The table is a function from the keys present, <<id, type>>, to the items.
Key(id, type) == <<id, type>>
KeyOf(item) == Key(item.id, item.type)
NoItem == [found |-> FALSE]
Found(item) == [found |-> TRUE, item |-> item]

\* As put, but conditional on the key not being there (attribute_not_exists).
put_IfAbsent(tbl, item) ==
  [k \in DOMAIN tbl \cup {KeyOf(item)} |-> IF k \in DOMAIN tbl THEN tbl[k] ELSE item]

get(tbl, key) == IF key \in DOMAIN tbl THEN Found(tbl[key]) ELSE NoItem

put(tbl, item) ==
  [k \in DOMAIN tbl \cup {KeyOf(item)} |-> IF k = KeyOf(item) THEN item ELSE tbl[k]]

remove(tbl, key) == [k \in DOMAIN tbl \ {key} |-> tbl[k]]
(* ------------------------------- state -------------------------------- *)
VARIABLES
  table,    \* the DynamoDB table
  now,      \* the clock, in hours
  uuid,     \* how many uuidv4() values have been drawn
  secret,   \* process.env.JWT_SECRET
  storeUp,  \* whether docClient.send reaches the table; it rejects when not
  issued,   \* the tokens register and login have handed out
  registered, \* the email/password pairs register has answered 201 for
  pc,       \* where each invocation stands
  loc,      \* the event of an invocation that is between two store calls
  last      \* the response being returned: handler, event, when received, response, log lines

vars == <<table, now, uuid, secret, storeUp, issued, registered, pc, loc, last>>

\* docClient.send(command) rejects: the awaited store call throws.
SendThrows == ~storeUp

Uuid(n) == "uuid-" \o ToString(n)
NoHeaders == [Authorization |-> Undefined, authorization |-> Undefined]
NoPath == [id |-> ""]
Event(headers, body, path) == [headers |-> headers, body |-> body, pathParameters |-> path]
Idle == [handler |-> "none"]
EmptyTable == [k \in {} |-> Idle]

Init ==
  /\ table = EmptyTable
  /\ now = 0
  /\ uuid = 0
  /\ secret \in Secrets
  /\ storeUp = TRUE
  /\ issued = {}
  /\ registered = {}
  /\ pc = [p \in Procs |-> "idle"]
  /\ loc = [p \in Procs |-> Idle]
  /\ last = Idle

\* Invocations are anonymous: a new one takes the lowest free slot.
CanStart(p) ==
  /\ last = Idle
  /\ pc[p] = "idle"
  /\ \A q \in Procs : q < p => pc[q] # "idle"

(* ------------------------------ logger.js ----------------------------- *)
\* An object as the logger sees it: `own` are its own enumerable fields (what
\* { ...error } and JSON.stringify copy), `hidden` the others. An Error keeps
\* message and stack as hidden fields; text is a sequence of words.
JsError == [own |-> [f \in {} |-> <<>>], hidden |-> [message |-> <<"Unexpected", "token">>, stack |-> <<"at", "parse">>]]
ServiceError ==
  [own |-> [name |-> <<"ValidationException">>, fault |-> <<"client">>],
   hidden |-> [message |-> <<"ExpressionAttributeNames", "missing">>, stack |-> <<"at", "send">>]]

\* The error the catch block of a handler receives: the SyntaxError or
\* TypeError of a body that cannot be read; the exception of the store for a
\* rejected call (every scan, and every call while the store is down); and
\* otherwise the Error of a library call (jwt.sign without a secret, the
\* marshalling of an order).
Throwable(handler, event) ==
  IF /\ handler \in {"register", "login", "products.create", "products.update", "orders.create"}
     /\ JsonParseThrows(event.body)
    THEN {JsError}
  ELSE IF handler \in {"register", "login"} /\ DestructureThrows(event.body) THEN {JsError}
  ELSE IF handler \in {"products.getAll", "orders.getAll"} \/ SendThrows THEN {ServiceError}
  ELSE {JsError}
NodeEnvs == {"production", "development"}

sensitiveFields == <<"password", "token", "secret", "key", "authorization">>
Redacted == <<"[REDACTED]">>

\* sanitized.replace(regex, `${field}: [REDACTED]`): the word `field` and the
\* word after it become the field and the mark.
RECURSIVE replaceField(_, _)
replaceField(text, field) ==
  IF Len(text) = 0 THEN text
  ELSE IF Head(text) = field /\ Len(text) >= 2
    THEN <<field>> \o Redacted \o replaceField(Tail(Tail(text)), field)
  ELSE <<Head(text)>> \o replaceField(Tail(text), field)

RECURSIVE sanitizeText(_, _)
sanitizeText(text, i) ==
  IF i > Len(sensitiveFields) THEN text
  ELSE sanitizeText(replaceField(text, sensitiveFields[i]), i + 1)

\* sanitizeError of an object: the spread copies the own enumerable fields,
\* the sensitive ones that are truthy are overwritten, the message is
\* sanitized as text, and the stack is deleted in production.
sanitizeError(error, env) ==
  LET kept == {f \in DOMAIN error.own : ~(f = "stack" /\ env = "production")} IN
  [own |-> [f \in kept |->
              IF (\E i \in 1..Len(sensitiveFields) : sensitiveFields[i] = f) /\ error.own[f] # <<>>
                THEN Redacted
              ELSE IF f = "message" THEN sanitizeText(error.own[f], 1)
              ELSE error.own[f]],
   hidden |-> [f \in {} |-> <<>>]]

\* console.error(JSON.stringify(logEntry)) of logError.
logError(context, error, additionalInfo, env, clock) ==
  [sink |-> "console.error", timestamp |-> clock, level |-> "ERROR", context |-> context,
   error |-> sanitizeError(error, env),
   info |-> sanitizeError([own |-> additionalInfo, hidden |-> [f \in {} |-> <<>>]], env).own]

\* console.error('...:', error) of orders.js: the error object itself.
consoleError(label, error) ==
  [sink |-> "console.error", label |-> label, error |-> error]

\* What the catch block of a handler writes before it answers 500.
catchLog(handler, error, env, clock) ==
  CASE handler = "register" ->
         logError("auth.register", error, [action |-> <<"user_registration">>], env, clock)
    [] handler = "login" -> logError("auth.login", error, [action |-> <<"user_login">>], env, clock)
    [] handler = "orders.create" -> consoleError("Create order error:", error)
    [] handler = "orders.getAll" -> consoleError("Get orders error:", error)
    [] handler = "orders.getById" -> consoleError("Get order error:", error)
    [] handler = "products.create" -> consoleError("Create product error:", error)
    [] handler = "products.getAll" -> consoleError("Get products error:", error)
    [] handler = "products.getById" -> consoleError("Get product error:", error)
    [] handler = "products.update" -> consoleError("Update product error:", error)
    [] handler = "products.delete" -> consoleError("Delete product error:", error)

\* The handler returns `resp`. One response is handed back at a time, and nothing
\* else moves until it has reached the caller (Deliver). A 500 comes from the
\* catch block, which has written the caught error to the log first.
Return(p, handler, event, resp) ==
  /\ last = Idle
  /\ pc' = [pc EXCEPT ![p] = "idle"]
  /\ loc' = [loc EXCEPT ![p] = Idle]
  /\ IF resp.statusCode = 500
       THEN \E error \in Throwable(handler, event), env \in NodeEnvs :
              last' = [handler |-> handler, event |-> event, resp |-> resp,
                       received |-> IF pc[p] = "idle" THEN now ELSE loc[p].since,
                       caught |-> <<error>>,
                       logged |-> <<catchLog(handler, error, env, now)>>]
     ELSE last' = [handler |-> handler, event |-> event, resp |-> resp,
                   received |-> IF pc[p] = "idle" THEN now ELSE loc[p].since,
                   caught |-> <<>>, logged |-> <<>>]

\* The invocation waits for a store call; `since` is when the call was issued.
Await(p, at, handler, event) ==
  /\ last = Idle
  /\ pc' = [pc EXCEPT ![p] = at]
  /\ loc' = [loc EXCEPT ![p] = [handler |-> handler, event |-> event, since |-> now]]
  /\ last' = last

\* new Date() is read after the awaited call returned and before the next one
\* takes effect: any clock value in between.
ClockValues == {n \in 0..MaxClock : n % ClockStep = 0}
DatesSince(p) == {c \in ClockValues : loc[p].since <= c /\ c <= now}

\* Two successive new Date() in one handler: the clock may step between them,
\* by one of the durations in `waits`.
SecondReading(waits) == {c \in ClockValues : (c - now) \in waits}
Still == {0}
Stepping == {0, ClockStep}

\* The response has reached the caller.
Deliver ==
  /\ last # Idle
  /\ last' = Idle
  /\ UNCHANGED <<table, now, uuid, secret, storeUp, registered, issued, pc, loc>>

(* ------------------------------ auth.js ------------------------------- *)
\* As registerCheck, without the look-up of the email.
registerCheck_NoLookup(event, tbl) ==
  IF JsonParseThrows(event.body)
  THEN [done |-> TRUE, resp |-> serverError("Internal server error")]
  ELSE LET error == registerSchema(event.body.value) IN
       IF error.isError THEN [done |-> TRUE, resp |-> badRequest(error.message)]
       ELSE [done |-> FALSE]

\* register up to its first store call: parse, validate, look the email up.
registerCheck(event, tbl) ==
  IF JsonParseThrows(event.body) \/ DestructureThrows(event.body)
  THEN [done |-> TRUE, resp |-> serverError("Internal server error")]
  ELSE LET v == event.body.value
           error == registerSchema(v) IN
       IF error.isError THEN [done |-> TRUE, resp |-> badRequest(error.message)]
       ELSE IF SendThrows THEN [done |-> TRUE, resp |-> serverError("Internal server error")]
       ELSE IF get(tbl, Key(v.email.text, "user")).found
       THEN [done |-> TRUE, resp |-> badRequest("User already exists")]
       ELSE [done |-> FALSE]

userRecord(v, userId, clock) ==
  [id |-> v.email.text, type |-> "user", userId |-> userId, name |-> v.name.text,
   password |-> bcryptHash(v.password, BcryptRounds), createdAt |-> clock]

userView(userId, email, name) == [userId |-> userId, email |-> email, name |-> name]

\* register from the put on: the record is written, then the token is signed.
registerFinish(event, userId, key, clock) ==
  LET v == event.body.value
      signed == JwtSign([userId |-> userId, email |-> v.email.text], key, TokenLifetime, clock)
  IN IF signed.threw
     THEN [resp |-> serverError("Internal server error"), tokens |-> {}]
     ELSE [resp |-> created([token |-> signed.payload,
                             user |-> userView(userId, v.email.text, v.name.text)]),
           tokens |-> {signed.payload}]

RegisterCheck(p, headerSets, bodies, paths) ==
  /\ CanStart(p)
  /\ \E h \in headerSets, b \in bodies, path \in paths :
       LET event == Event(h, b, path)
           r == registerCheck(event, table) IN
       IF r.done THEN Return(p, "register", event, r.resp)
       ELSE Await(p, "register_put", "register", event)
  /\ UNCHANGED <<table, now, uuid, secret, storeUp, registered, issued>>

RegisterPut(p) ==
  /\ last = Idle
  /\ pc[p] = "register_put"
  /\ uuid < MaxUuid
  /\ \E createdAt \in DatesSince(p) :
       LET event == loc[p].event
           userId == Uuid(uuid + 1)
           r == IF SendThrows
                THEN [resp |-> serverError("Internal server error"), tokens |-> {}]
                ELSE registerFinish(event, userId, secret, now) IN
       /\ uuid' = uuid + 1
       /\ table' = IF SendThrows THEN table
                   ELSE put(table, userRecord(event.body.value, userId, createdAt))
       /\ issued' = issued \cup r.tokens
       /\ registered' = IF r.resp.statusCode = 201
                        THEN registered \cup {[email |-> event.body.value.email.text,
                                               password |-> event.body.value.password.text]}
                        ELSE registered
       /\ Return(p, "register", event, r.resp)
  /\ UNCHANGED <<now, secret, storeUp>>

\* As login, answering Not-Found for an email nobody registered.
login_NotFound(event, tbl, key, clock) ==
  IF JsonParseThrows(event.body)
  THEN [resp |-> serverError("Internal server error"), tokens |-> {}]
  ELSE LET v == event.body.value
           error == loginSchema(v) IN
       IF error.isError THEN [resp |-> badRequest(error.message), tokens |-> {}]
       ELSE LET user == get(tbl, Key(v.email.text, "user")) IN
            IF ~user.found
            THEN [resp |-> notFound("User not found"), tokens |-> {}]
            ELSE IF ~bcryptCompare(v.password, user.item.password)
            THEN [resp |-> unauthorized("Invalid credentials"), tokens |-> {}]
            ELSE LET signed == JwtSign([userId |-> user.item.userId, email |-> user.item.id],
                                       key, TokenLifetime, clock) IN
                 IF signed.threw
                 THEN [resp |-> serverError("Internal server error"), tokens |-> {}]
                 ELSE [resp |-> success([token |-> signed.payload,
                                         user |-> userView(user.item.userId, user.item.id,
                                                           user.item.name)]),
                       tokens |-> {signed.payload}]

\* As login, handing the stored record back as the user.
login_ReturnsRecord(event, tbl, key, clock) ==
  IF JsonParseThrows(event.body)
  THEN [resp |-> serverError("Internal server error"), tokens |-> {}]
  ELSE LET v == event.body.value
           error == loginSchema(v) IN
       IF error.isError THEN [resp |-> badRequest(error.message), tokens |-> {}]
       ELSE LET user == get(tbl, Key(v.email.text, "user")) IN
            IF ~user.found
            THEN [resp |-> unauthorized("Invalid credentials"), tokens |-> {}]
            ELSE IF ~bcryptCompare(v.password, user.item.password)
            THEN [resp |-> unauthorized("Invalid credentials"), tokens |-> {}]
            ELSE LET signed == JwtSign([userId |-> user.item.userId, email |-> user.item.id],
                                       key, TokenLifetime, clock) IN
                 IF signed.threw
                 THEN [resp |-> serverError("Internal server error"), tokens |-> {}]
                 ELSE [resp |-> success([token |-> signed.payload, user |-> user.item]),
                       tokens |-> {signed.payload}]

\* login is one store call (get) followed by local work only.
login(event, tbl, key, clock) ==
  IF JsonParseThrows(event.body) \/ DestructureThrows(event.body)
  THEN [resp |-> serverError("Internal server error"), tokens |-> {}]
  ELSE LET v == event.body.value
           error == loginSchema(v) IN
       IF error.isError THEN [resp |-> badRequest(error.message), tokens |-> {}]
       ELSE IF SendThrows
       THEN [resp |-> serverError("Internal server error"), tokens |-> {}]
       ELSE LET user == get(tbl, Key(v.email.text, "user")) IN
            IF ~user.found
            THEN [resp |-> unauthorized("Invalid credentials"), tokens |-> {}]
            ELSE IF ~bcryptCompare(v.password, user.item.password)
            THEN [resp |-> unauthorized("Invalid credentials"), tokens |-> {}]
            ELSE LET signed == JwtSign([userId |-> user.item.userId, email |-> user.item.id],
                                       key, TokenLifetime, clock) IN
                 IF signed.threw
                 THEN [resp |-> serverError("Internal server error"), tokens |-> {}]
                 ELSE [resp |-> success([token |-> signed.payload,
                                         user |-> userView(user.item.userId, user.item.id,
                                                           user.item.name)]),
                       tokens |-> {signed.payload}]

Login(p, headerSets, bodies, paths) ==
  /\ CanStart(p)
  /\ \E h \in headerSets, b \in bodies, path \in paths :
       LET event == Event(h, b, path)
           r == login(event, table, secret, now) IN
       /\ issued' = issued \cup r.tokens
       /\ Return(p, "login", event, r.resp)
  /\ UNCHANGED <<table, now, uuid, secret, storeUp, registered>>

Tick ==
  /\ last = Idle
  /\ now + ClockStep <= MaxClock
  /\ now' = now + ClockStep
  /\ UNCHANGED <<table, uuid, secret, storeUp, registered, issued, pc, loc, last>>

(* --------------------------- request headers -------------------------- *)
\* Tokens nobody was issued: one signed with another key, one signed with the
\* server key but with its expiry already behind it.
ForgedToken ==
  [userId |-> Uuid(1), email |-> EmailA.text, iat |-> 0, exp |-> TokenLifetime, key |-> ForgedKey]
PastDatedToken ==
  [userId |-> Uuid(1), email |-> EmailA.text, iat |-> 0 - TokenLifetime, exp |-> 0,
   key |-> ServerKey]
Presentable == issued \cup {ForgedToken, PastDatedToken}

HeaderStrings(tokens) ==
  {<<>>, <<BearerChunk>> \o Text("garbage")}
  \cup {Jwt(t) : t \in tokens}
  \cup {<<BearerChunk>> \o Jwt(t) : t \in tokens}
  \cup {Jwt(t) \o <<BearerChunk>> : t \in tokens}

HeaderSets(tokens) ==
  {NoHeaders}
  \cup {[Authorization |-> Str(h), authorization |-> Undefined] : h \in HeaderStrings(tokens)}
  \cup {[Authorization |-> Undefined, authorization |-> Str(<<BearerChunk>> \o Jwt(t))] :
          t \in tokens}
  \cup {[Authorization |-> Str(Text("garbage")),
         authorization |-> Str(<<BearerChunk>> \o Jwt(t))] : t \in tokens}

\* What a well-behaved client sends, plus no header at all.
PlainHeaderSets(tokens) ==
  {NoHeaders}
  \cup {[Authorization |-> Str(<<BearerChunk>> \o Jwt(t)), authorization |-> Undefined] :
          t \in tokens}

(* ----------------------------- JS numbers ----------------------------- *)
\* A JS number is an IEEE double: sign, 53 significant bits, binary exponent. The
\* model keeps the value exactly as mant / 2^frac, mant a natural number written
\* as its bits, lowest first (no leading zero; zero is the empty sequence), and
\* cut down after each operation, so that frac is 0 or mant is odd.
RECURSIVE FromNat(_)
FromNat(n) == IF n = 0 THEN <<>> ELSE <<n % 2>> \o FromNat(n \div 2)
RECURSIVE ToNat(_)
ToNat(b) == IF b = <<>> THEN 0 ELSE Head(b) + 2 * ToNat(Tail(b))
Zeros(n) == [i \in 1..n |-> 0]
Ones(n) == [i \in 1..n |-> 1]
Rest(b) == IF b = <<>> THEN <<>> ELSE Tail(b)
Low(b) == IF b = <<>> THEN 0 ELSE Head(b)

RECURSIVE AddBits(_, _, _)
AddBits(a, b, carry) ==
  IF a = <<>> /\ b = <<>> THEN (IF carry = 1 THEN <<1>> ELSE <<>>)
  ELSE LET s == Low(a) + Low(b) + carry IN
       <<s % 2>> \o AddBits(Rest(a), Rest(b), s \div 2)

RECURSIVE MulBits(_, _)
MulBits(a, b) ==
  IF a = <<>> \/ b = <<>> THEN <<>>
  ELSE LET rest == MulBits(a, Tail(b))
           shifted == IF rest = <<>> THEN <<>> ELSE <<0>> \o rest IN
       IF Head(b) = 1 THEN AddBits(a, shifted, 0) ELSE shifted

\* Common factors of two are cancelled between mant and 2^frac.
RECURSIVE Reduced(_)
Reduced(x) ==
  IF x.mant = <<>> THEN [neg |-> FALSE, mant |-> <<>>, frac |-> 0]
  ELSE IF x.frac > 0 /\ Head(x.mant) = 0
  THEN Reduced([x EXCEPT !.mant = Tail(x.mant), !.frac = x.frac - 1])
  ELSE x

\* Round to nearest, ties to even, at 53 significant bits.
RoundDouble(x) ==
  LET len == Len(x.mant)
      drop == len - MantissaBits IN
  IF drop <= 0 THEN Reduced(x)
  ELSE LET kept == SubSeq(x.mant, drop + 1, len)
           half == x.mant[drop] = 1
           sticky == \E i \in 1..(drop - 1) : x.mant[i] = 1
           up == half /\ (sticky \/ Head(kept) = 1)
           mant == IF up THEN AddBits(kept, <<1>>, 0) ELSE kept IN
       IF x.frac >= drop
       THEN Reduced([neg |-> x.neg, mant |-> mant, frac |-> x.frac - drop])
       ELSE Reduced([neg |-> x.neg, mant |-> Zeros(drop - x.frac) \o mant, frac |-> 0])

\* n / 2^frac for an integer n of the model.
Dyadic(n, frac) ==
  Reduced([neg |-> n < 0, mant |-> FromNat(IF n < 0 THEN 0 - n ELSE n), frac |-> frac])
Whole(n) == Dyadic(n, 0)
MaxSafeInteger == [neg |-> FALSE, mant |-> Ones(MantissaBits), frac |-> 0]

\* The product as it is in the reals, and the * of JS.
ExactTimes(x, y) ==
  Reduced([neg |-> x.neg # y.neg, mant |-> MulBits(x.mant, y.mant), frac |-> x.frac + y.frac])
Times(x, y) == RoundDouble(ExactTimes(x, y))

\* The sum of two numbers of one sign as it is in the reals, and the + of JS.
ExactPlus(x, y) ==
  LET frac == IF x.frac > y.frac THEN x.frac ELSE y.frac
      a == IF x.mant = <<>> THEN <<>> ELSE Zeros(frac - x.frac) \o x.mant
      b == IF y.mant = <<>> THEN <<>> ELSE Zeros(frac - y.frac) \o y.mant IN
  Reduced([neg |-> x.neg, mant |-> AddBits(a, b, 0), frac |-> frac])
Plus(x, y) == RoundDouble(ExactPlus(x, y))

IsZero(x) == x.mant = <<>>
IsPositive(x) == ~x.neg /\ ~IsZero(x)
IsInteger(x) == x.frac = 0
\* x >= n, for a natural number n of the model and an integer x.
AtLeast(x, n) == IF x.neg THEN IsZero(x) /\ n = 0
                 ELSE Len(x.mant) > Len(FromNat(n)) \/ ToNat(x.mant) >= n
\* |x| <= Number.MAX_SAFE_INTEGER
IsSafe(x) == Len(x.mant) - x.frac <= MantissaBits

\* A JSON value where a number is expected: a number, a string that reads as a
\* number ("15"), or a string that does not.
Num(x) == [type |-> "number", n |-> x]
NumStr(x) == [type |-> "string", n |-> x]
NotNumeric == [type |-> "string", text |-> "free"]
\* What the arithmetic operators make of a value.
ToNumber(v) == v.n
\* The document client turns a JS number into a number attribute, and throws for
\* one beyond the safe integers; a string goes in as it is.
NumberAttrThrows(v) == v.type = "number" /\ ~IsSafe(v.n)

(* ---------------------------- products.js ----------------------------- *)
Has(v, k) == k \in DOMAIN v
ProductKeys == {"name", "description", "price", "category", "stock", "imageUrl"}

unknownKeyError(v, allowed) ==
  IF DOMAIN v \subseteq allowed THEN NoError
  ELSE JoiError("\"" \o (CHOOSE k \in DOMAIN v : k \notin allowed) \o "\" is not allowed")

requiredRule(v, k) ==
  IF ~Has(v, k) THEN JoiError("\"" \o k \o "\" is required") ELSE NoError

\* Joi.number(): a string that reads as a number passes as that number (the
\* convert option is on by default); the number must be a safe one.
numberBase(x, label) ==
  IF "n" \notin DOMAIN x THEN JoiError(label \o " must be a number")
  ELSE IF ~IsSafe(x.n) THEN JoiError(label \o " must be a safe number")
  ELSE NoError

positiveRule(x, label) ==
  IF numberBase(x, label).isError THEN numberBase(x, label)
  ELSE IF ~IsPositive(x.n) THEN JoiError(label \o " must be a positive number")
  ELSE NoError

integerMinRule(x, label, min) ==
  IF numberBase(x, label).isError THEN numberBase(x, label)
  ELSE IF ~IsInteger(x.n) THEN JoiError(label \o " must be an integer")
  ELSE IF ~AtLeast(x.n, min)
  THEN JoiError(label \o " must be greater than or equal to " \o ToString(min))
  ELSE NoError

priceRule(v) == IF Has(v, "price") THEN positiveRule(v.price, "\"price\"") ELSE NoError

stockRule(v) == IF Has(v, "stock") THEN integerMinRule(v.stock, "\"stock\"", 0) ELSE NoError

productSchema(v) ==
  FirstError(<<requiredRule(v, "name"), requiredRule(v, "price"), priceRule(v),
               requiredRule(v, "category"), requiredRule(v, "stock"), stockRule(v),
               unknownKeyError(v, ProductKeys)>>)

\* As updateProductSchema, letting keys through that the schema does not list.
updateProductSchema_AllowUnknown(v) == FirstError(<<priceRule(v), stockRule(v)>>)

updateProductSchema(v) ==
  FirstError(<<priceRule(v), stockRule(v), unknownKeyError(v, ProductKeys)>>)

EmptyObject == [k \in {} |-> 0]
ProductPen ==
  [name |-> "Pen", price |-> Num(Dyadic(3, 1)), category |-> "office", stock |-> Num(Whole(10))]
ProductBodies ==
  {BodyJson(ProductPen), BodyJson([ProductPen EXCEPT !.price = Num(Whole(0))]),
   BodyJson([name |-> "Pen", price |-> Num(Dyadic(3, 1)), category |-> "office"]),
   BodyAbsent, BodyMalformed}
UpdateBodies ==
  {BodyJson([stock |-> Num(Whole(5))]),
   BodyJson([price |-> Num(Whole(2)), name |-> "Pencil"]),
   BodyJson([stock |-> Num(Whole(0 - 1))]), BodyJson([id |-> "other"]),
   BodyJson(EmptyObject), BodyAbsent, BodyMalformed}

PathIds == {[id |-> Uuid(n)] : n \in 1..MaxUuid}

\* As productsCreate, but the body is parsed before the caller is authenticated.
productsCreate_ParseFirst(event, tbl, key, clock, productId, later) ==
  LET authResult == authenticateToken(event, key, clock) IN
  IF JsonParseThrows(event.body)
  THEN [resp |-> serverError("Internal server error"), table |-> tbl, drew |-> FALSE]
  ELSE IF authResult.threw
  THEN [resp |-> serverError("Internal server error"), table |-> tbl, drew |-> FALSE]
  ELSE IF ~authResult.isValid
  THEN [resp |-> authResult.response, table |-> tbl, drew |-> FALSE]
  ELSE LET productData == event.body.value
           error == productSchema(productData) IN
       IF error.isError
       THEN [resp |-> badRequest(error.message), table |-> tbl, drew |-> FALSE]
       ELSE LET product == [createdAt |-> clock, updatedAt |-> later] @@ productData
                           @@ [id |-> productId, type |-> "product"] IN
            [resp |-> created(product), table |-> put(tbl, product), drew |-> TRUE]

\* create: one store call, the put. createdAt and updatedAt are two readings of
\* the clock, `clock` and `later`.
productsCreate(event, tbl, key, clock, productId, later) ==
  LET authResult == authenticateToken(event, key, clock) IN
  IF authResult.threw
  THEN [resp |-> serverError("Internal server error"), table |-> tbl, drew |-> FALSE]
  ELSE IF ~authResult.isValid
  THEN [resp |-> authResult.response, table |-> tbl, drew |-> FALSE]
  ELSE IF JsonParseThrows(event.body)
  THEN [resp |-> serverError("Internal server error"), table |-> tbl, drew |-> FALSE]
  ELSE IF event.body.kind = "null"
  THEN [resp |-> badRequest(ObjectBaseError.message), table |-> tbl, drew |-> FALSE]
  ELSE LET productData == event.body.value
           error == productSchema(productData) IN
       IF error.isError
       THEN [resp |-> badRequest(error.message), table |-> tbl, drew |-> FALSE]
       ELSE LET product == [createdAt |-> clock, updatedAt |-> later] @@ productData
                           @@ [id |-> productId, type |-> "product"] IN
            IF SendThrows
            THEN [resp |-> serverError("Internal server error"), table |-> tbl, drew |-> TRUE]
            ELSE [resp |-> created(product), table |-> put(tbl, product), drew |-> TRUE]

\* What a filter on the type selects.
scan(tbl, type) == {tbl[k] : k \in {d \in DOMAIN tbl : d[2] = type}}

\* scan(filterExpression, values) sends the filter with its values and without
\* ExpressionAttributeNames, so the store rejects a filter that uses a name
\* placeholder such as #type: the call throws.
ScanNamesGiven == {}
scanThrows(placeholders) == placeholders \ ScanNamesGiven # {}

\* As productsGetAll, handing the store's error message to the caller.
productsGetAll(tbl) ==
  IF SendThrows \/ scanThrows({"#type"}) THEN [resp |-> serverError("Internal server error")]
  ELSE [resp |-> success(scan(tbl, "product"))]

\* As productsGetById, falling back on whatever record has the id.
productsGetById_AnyType(event, tbl) ==
  LET product == get(tbl, Key(event.pathParameters.id, "product"))
      others == {k \in DOMAIN tbl : k[1] = event.pathParameters.id} IN
  IF SendThrows THEN [resp |-> serverError("Internal server error")]
  ELSE IF product.found THEN [resp |-> success(product.item)]
  ELSE IF others = {} THEN [resp |-> notFound("Product not found")]
  ELSE [resp |-> success(tbl[CHOOSE k \in others : TRUE])]

\* As productsGetById, handing the store's error message to the caller.
productsGetById_EchoesError(event, tbl) ==
  LET product == get(tbl, Key(event.pathParameters.id, "product")) IN
  IF SendThrows THEN [resp |-> serverError("Requested resource not found")]
  ELSE IF ~product.found THEN [resp |-> notFound("Product not found")]
  ELSE [resp |-> success(product.item)]

productsGetById(event, tbl) ==
  LET product == get(tbl, Key(event.pathParameters.id, "product")) IN
  IF SendThrows THEN [resp |-> serverError("Internal server error")]
  ELSE IF ~product.found THEN [resp |-> notFound("Product not found")]
  ELSE [resp |-> success(product.item)]

\* update up to its first store call (the get).
productsUpdateCheck(event, tbl, key, clock) ==
  LET authResult == authenticateToken(event, key, clock) IN
  IF authResult.threw THEN [done |-> TRUE, resp |-> serverError("Internal server error")]
  ELSE IF ~authResult.isValid THEN [done |-> TRUE, resp |-> authResult.response]
  ELSE IF JsonParseThrows(event.body)
  THEN [done |-> TRUE, resp |-> serverError("Internal server error")]
  ELSE IF event.body.kind = "null"
  THEN [done |-> TRUE, resp |-> badRequest(ObjectBaseError.message)]
  ELSE LET error == updateProductSchema(event.body.value) IN
       IF error.isError THEN [done |-> TRUE, resp |-> badRequest(error.message)]
       ELSE IF SendThrows THEN [done |-> TRUE, resp |-> serverError("Internal server error")]
       ELSE IF ~get(tbl, Key(event.pathParameters.id, "product")).found
       THEN [done |-> TRUE, resp |-> notFound("Product not found")]
       ELSE [done |-> FALSE]

\* As update, writing the item as the key and the named attributes only.
update_WholeItem(tbl, key, attrs) ==
  LET new == attrs @@ [id |-> key[1], type |-> key[2]] IN
  [table |-> [k \in DOMAIN tbl \cup {key} |-> IF k = key THEN new ELSE tbl[k]],
   Attributes |-> new]

\* UpdateItem with a SET expression: the named attributes are written on the item
\* at the key, which the store creates when it is not there; ALL_NEW is returned.
update(tbl, key, attrs) ==
  LET old == IF key \in DOMAIN tbl THEN tbl[key] ELSE [id |-> key[1], type |-> key[2]]
      new == attrs @@ old IN
  [table |-> [k \in DOMAIN tbl \cup {key} |-> IF k = key THEN new ELSE tbl[k]],
   Attributes |-> new]

\* Object.keys(updateData): the keys in the order the body gives them, each once.
KeyOrders(obj) ==
  {s \in [1..Cardinality(DOMAIN obj) -> DOMAIN obj] :
     \A i, j \in DOMAIN s : i # j => s[i] # s[j]}
ObjectKeys(obj) == CHOOSE s \in KeyOrders(obj) : TRUE

attributeName(index) == "#attr" \o ToString(index)
attributeValue(index) == ":val" \o ToString(index)

\* As updateCommand, with the updatedAt clause pushed before the loop.
updateCommand_StampFirst(keys, updateData, clock) ==
  LET n == Len(keys)
      at(t) == CHOOSE i \in 1..n : t \in {attributeName(i - 1), attributeValue(i - 1)} IN
  [updateExpressions |->
     [i \in 1..(n + 1) |->
        IF i > 1 THEN <<attributeName(i - 2), attributeValue(i - 2)>>
        ELSE <<"#updatedAt", ":updatedAt">>],
   expressionAttributeNames |->
     [t \in {attributeName(i - 1) : i \in 1..n} \cup {"#updatedAt"} |->
        IF t = "#updatedAt" THEN "updatedAt" ELSE keys[at(t)]],
   expressionAttributeValues |->
     [t \in {attributeValue(i - 1) : i \in 1..n} \cup {":updatedAt"} |->
        IF t = ":updatedAt" THEN clock ELSE updateData[keys[at(t)]]]]

\* The update expression and its two maps. A clause is the pair of tokens of
\* `${attributeName} = ${attributeValue}`; the expression is SET and the clauses
\* joined in order. index counts from 0.
updateCommand(keys, updateData, clock) ==
  LET n == Len(keys)
      at(t) == CHOOSE i \in 1..n : t \in {attributeName(i - 1), attributeValue(i - 1)} IN
  [updateExpressions |->
     [i \in 1..(n + 1) |->
        IF i <= n THEN <<attributeName(i - 1), attributeValue(i - 1)>>
        ELSE <<"#updatedAt", ":updatedAt">>],
   expressionAttributeNames |->
     [t \in {attributeName(i - 1) : i \in 1..n} \cup {"#updatedAt"} |->
        IF t = "#updatedAt" THEN "updatedAt" ELSE keys[at(t)]],
   expressionAttributeValues |->
     [t \in {attributeValue(i - 1) : i \in 1..n} \cup {":updatedAt"} |->
        IF t = ":updatedAt" THEN clock ELSE updateData[keys[at(t)]]]]

\* The store rejects an expression with a token that has no entry in its map
\* and one whose clauses name the same attribute twice.
updateThrows(command) ==
  LET clauses == command.updateExpressions IN
  \/ \E i \in DOMAIN clauses :
       \/ clauses[i][1] \notin DOMAIN command.expressionAttributeNames
       \/ clauses[i][2] \notin DOMAIN command.expressionAttributeValues
  \/ \E i, j \in DOMAIN clauses :
       /\ i # j
       /\ command.expressionAttributeNames[clauses[i][1]]
            = command.expressionAttributeNames[clauses[j][1]]

\* The attributes the SET expression writes, by name.
setAttributes(command) ==
  LET clauses == command.updateExpressions
      nameOf(i) == command.expressionAttributeNames[clauses[i][1]] IN
  [a \in {nameOf(i) : i \in DOMAIN clauses} |->
     command.expressionAttributeValues[clauses[CHOOSE i \in DOMAIN clauses : nameOf(i) = a][2]]]

productsUpdateWrite(event, tbl, clock) ==
  LET updateData == event.body.value
      command == updateCommand(ObjectKeys(updateData), updateData, clock)
      r == update(tbl, Key(event.pathParameters.id, "product"), setAttributes(command)) IN
  IF SendThrows \/ updateThrows(command)
    THEN [resp |-> serverError("Internal server error"), table |-> tbl]
  ELSE [resp |-> success(r.Attributes), table |-> r.table]

\* As productsDeleteCheck, without the look-up of the product.
productsDeleteCheck_NoLookup(event, tbl, key, clock) ==
  LET authResult == authenticateToken(event, key, clock) IN
  IF authResult.threw THEN [done |-> TRUE, resp |-> serverError("Internal server error")]
  ELSE IF ~authResult.isValid THEN [done |-> TRUE, resp |-> authResult.response]
  ELSE [done |-> FALSE]

\* delete up to its first store call (the get).
productsDeleteCheck(event, tbl, key, clock) ==
  LET authResult == authenticateToken(event, key, clock) IN
  IF authResult.threw THEN [done |-> TRUE, resp |-> serverError("Internal server error")]
  ELSE IF ~authResult.isValid THEN [done |-> TRUE, resp |-> authResult.response]
  ELSE IF SendThrows THEN [done |-> TRUE, resp |-> serverError("Internal server error")]
  ELSE IF ~get(tbl, Key(event.pathParameters.id, "product")).found
  THEN [done |-> TRUE, resp |-> notFound("Product not found")]
  ELSE [done |-> FALSE]

productsDeleteRemove(event, tbl) ==
  IF SendThrows THEN [resp |-> serverError("Internal server error"), table |-> tbl]
  ELSE [resp |-> success([message |-> "Product deleted successfully"]),
        table |-> remove(tbl, Key(event.pathParameters.id, "product"))]

ProductsCreate(p, headerSets, bodies, paths, waits) ==
  /\ CanStart(p)
  /\ \E h \in headerSets, b \in bodies, path \in paths, later \in SecondReading(waits) :
       LET event == Event(h, b, path)
           r == productsCreate(event, table, secret, now, Uuid(uuid + 1), later) IN
       /\ r.drew => uuid < MaxUuid
       /\ ~r.drew => later = now
       /\ uuid' = IF r.drew THEN uuid + 1 ELSE uuid
       /\ now' = later
       /\ table' = r.table
       /\ Return(p, "products.create", event, r.resp)
  /\ UNCHANGED <<secret, storeUp, registered, issued>>

ProductsGetAll(p) ==
  /\ CanStart(p)
  /\ Return(p, "products.getAll", Event(NoHeaders, BodyAbsent, NoPath),
            productsGetAll(table).resp)
  /\ UNCHANGED <<table, now, uuid, secret, storeUp, registered, issued>>

ProductsGetById(p, headerSets, bodies, paths) ==
  /\ CanStart(p)
  /\ \E h \in headerSets, b \in bodies, path \in paths :
       LET event == Event(h, b, path) IN
       Return(p, "products.getById", event, productsGetById(event, table).resp)
  /\ UNCHANGED <<table, now, uuid, secret, storeUp, registered, issued>>

ProductsUpdateCheck(p, headerSets, bodies, paths) ==
  /\ CanStart(p)
  /\ \E h \in headerSets, b \in bodies, path \in paths :
       LET event == Event(h, b, path)
           r == productsUpdateCheck(event, table, secret, now) IN
       IF r.done THEN Return(p, "products.update", event, r.resp)
       ELSE Await(p, "update_write", "products.update", event)
  /\ UNCHANGED <<table, now, uuid, secret, storeUp, registered, issued>>

ProductsUpdateWrite(p) ==
  /\ last = Idle
  /\ pc[p] = "update_write"
  /\ \E updatedAt \in DatesSince(p) :
       LET r == productsUpdateWrite(loc[p].event, table, updatedAt) IN
       /\ table' = r.table
       /\ Return(p, "products.update", loc[p].event, r.resp)
  /\ UNCHANGED <<now, uuid, secret, storeUp, registered, issued>>

ProductsDeleteCheck(p, headerSets, bodies, paths) ==
  /\ CanStart(p)
  /\ \E h \in headerSets, b \in bodies, path \in paths :
       LET event == Event(h, b, path)
           r == productsDeleteCheck(event, table, secret, now) IN
       IF r.done THEN Return(p, "products.delete", event, r.resp)
       ELSE Await(p, "delete_remove", "products.delete", event)
  /\ UNCHANGED <<table, now, uuid, secret, storeUp, registered, issued>>

ProductsDeleteRemove(p) ==
  /\ last = Idle
  /\ pc[p] = "delete_remove"
  /\ LET r == productsDeleteRemove(loc[p].event, table) IN
       /\ table' = r.table
       /\ Return(p, "products.delete", loc[p].event, r.resp)
  /\ UNCHANGED <<now, uuid, secret, storeUp, registered, issued>>

(* ----------------------------- orders.js ------------------------------ *)
AddressKeys == <<"street", "city", "state", "zipCode", "country">>
ItemKeys == {"productId", "quantity", "price"}

orderItemSchema(item, i) ==
  LET at == "\"items[" \o ToString(i) \o "]." IN
  IF ~Has(item, "productId") THEN JoiError(at \o "productId\" is required")
  ELSE IF ~Has(item, "quantity") THEN JoiError(at \o "quantity\" is required")
  ELSE IF integerMinRule(item.quantity, at \o "quantity\"", 1).isError
  THEN integerMinRule(item.quantity, at \o "quantity\"", 1)
  ELSE IF ~Has(item, "price") THEN JoiError(at \o "price\" is required")
  ELSE IF positiveRule(item.price, at \o "price\"").isError
  THEN positiveRule(item.price, at \o "price\"")
  ELSE IF ~(DOMAIN item \subseteq ItemKeys)
  THEN JoiError(at \o (CHOOSE k \in DOMAIN item : k \notin ItemKeys) \o "\" is not allowed")
  ELSE NoError

addressSchema(a) ==
  FirstError([i \in 1..Len(AddressKeys) |->
                IF Has(a, AddressKeys[i]) THEN NoError
                ELSE JoiError("\"shippingAddress." \o AddressKeys[i] \o "\" is required")])

orderSchema(v) ==
  IF ~Has(v, "items") THEN JoiError("\"items\" is required")
  ELSE LET items == FirstError([i \in 1..Len(v.items) |-> orderItemSchema(v.items[i], i - 1)])
       IN IF items.isError THEN items
          ELSE IF Len(v.items) < 1 THEN JoiError("\"items\" must contain at least 1 items")
          ELSE IF ~Has(v, "shippingAddress") THEN JoiError("\"shippingAddress\" is required")
          ELSE IF addressSchema(v.shippingAddress).isError
          THEN addressSchema(v.shippingAddress)
          ELSE unknownKeyError(v, {"items", "shippingAddress"})

RECURSIVE reduceTotal(_, _)
reduceTotal(items, sum) ==
  IF items = <<>> THEN sum
  ELSE reduceTotal(Tail(items),
                   Plus(sum, Times(ToNumber(Head(items).price), ToNumber(Head(items).quantity))))

AddressHome ==
  [street |-> "1 Main St", city |-> "Springfield", state |-> "IL", zipCode |-> "62701",
   country |-> "US"]
ItemPen == [productId |-> Uuid(1), quantity |-> Num(Whole(2)), price |-> Num(Dyadic(3, 1))]
ItemInk == [productId |-> Uuid(2), quantity |-> Num(Whole(1)), price |-> Num(Whole(4))]
OrderBodies ==
  {BodyJson([items |-> <<ItemPen>>, shippingAddress |-> AddressHome]),
   BodyJson([items |-> <<ItemPen, ItemInk>>, shippingAddress |-> AddressHome]),
   BodyJson([items |-> <<>>, shippingAddress |-> AddressHome]),
   BodyJson([items |-> <<[ItemPen EXCEPT !.quantity = Num(Whole(0))]>>, shippingAddress |-> AddressHome]),
   BodyJson([items |-> <<ItemPen>>]),
   BodyAbsent, BodyMalformed}

\* put(order): marshalling the item fails on a number it cannot take.
orderPutThrows(order) ==
  \/ NumberAttrThrows(order.totalAmount)
  \/ \E i \in 1..Len(order.items) :
       NumberAttrThrows(order.items[i].price) \/ NumberAttrThrows(order.items[i].quantity)

\* As ordersCreate, keeping one order per caller (the id is made from the userId).
ordersCreate_OnePerUser(event, tbl, key, clock, orderId, later) ==
  LET auth == ordersGuard(event, key, clock) IN
  IF auth.threw
  THEN [resp |-> serverError("Internal server error"), table |-> tbl, drew |-> FALSE]
  ELSE IF ~auth.isValid THEN [resp |-> auth.response, table |-> tbl, drew |-> FALSE]
  ELSE IF JsonParseThrows(event.body)
  THEN [resp |-> serverError("Internal server error"), table |-> tbl, drew |-> FALSE]
  ELSE LET orderData == event.body.value
           error == orderSchema(orderData) IN
       IF error.isError
       THEN [resp |-> badRequest(error.message), table |-> tbl, drew |-> FALSE]
       ELSE LET order == [id |-> "cart-" \o auth.user.userId, type |-> "order",
                          userId |-> auth.user.userId,
                          userEmail |-> auth.user.email, items |-> orderData.items,
                          shippingAddress |-> orderData.shippingAddress,
                          totalAmount |-> Num(reduceTotal(orderData.items, Whole(0))),
                          status |-> "pending", createdAt |-> clock, updatedAt |-> later] IN
            IF orderPutThrows(order)
            THEN [resp |-> serverError("Internal server error"), table |-> tbl, drew |-> TRUE]
            ELSE [resp |-> created(order), table |-> put(tbl, order), drew |-> TRUE]

\* create: one store call, the put. createdAt and updatedAt are two readings of
\* the clock, `clock` and `later`.
ordersCreate(event, tbl, key, clock, orderId, later) ==
  LET auth == ordersGuard(event, key, clock) IN
  IF auth.threw
  THEN [resp |-> serverError("Internal server error"), table |-> tbl, drew |-> FALSE]
  ELSE IF ~auth.isValid THEN [resp |-> auth.response, table |-> tbl, drew |-> FALSE]
  ELSE IF JsonParseThrows(event.body)
  THEN [resp |-> serverError("Internal server error"), table |-> tbl, drew |-> FALSE]
  ELSE IF event.body.kind = "null"
  THEN [resp |-> badRequest(ObjectBaseError.message), table |-> tbl, drew |-> FALSE]
  ELSE LET orderData == event.body.value
           error == orderSchema(orderData) IN
       IF error.isError
       THEN [resp |-> badRequest(error.message), table |-> tbl, drew |-> FALSE]
       ELSE LET order == [id |-> orderId, type |-> "order", userId |-> auth.user.userId,
                          userEmail |-> auth.user.email, items |-> orderData.items,
                          shippingAddress |-> orderData.shippingAddress,
                          totalAmount |-> Num(reduceTotal(orderData.items, Whole(0))),
                          status |-> "pending", createdAt |-> clock, updatedAt |-> later] IN
            IF orderPutThrows(order) \/ SendThrows
            THEN [resp |-> serverError("Internal server error"), table |-> tbl, drew |-> TRUE]
            ELSE [resp |-> created(order), table |-> put(tbl, order), drew |-> TRUE]

\* What the filter '#type = :type AND userId = :userId' selects.
scanOrders(tbl, userId) == {o \in scan(tbl, "order") : o.userId = userId}

ordersGetAll(event, tbl, key, clock) ==
  LET auth == ordersGuard(event, key, clock) IN
  IF auth.threw THEN [resp |-> serverError("Internal server error")]
  ELSE IF ~auth.isValid THEN [resp |-> auth.response]
  ELSE IF SendThrows \/ scanThrows({"#type"})
  THEN [resp |-> serverError("Internal server error")]
  ELSE [resp |-> success(scanOrders(tbl, auth.user.userId))]

\* As ordersGetById, without the comparison of the order's userId.
ordersGetById_NoOwnerCheck(event, tbl, key, clock) ==
  LET auth == ordersGuard(event, key, clock) IN
  IF auth.threw THEN [resp |-> serverError("Internal server error")]
  ELSE IF ~auth.isValid THEN [resp |-> auth.response]
  ELSE LET order == get(tbl, Key(event.pathParameters.id, "order")) IN
       IF ~order.found THEN [resp |-> notFound("Order not found")]
       ELSE [resp |-> success(order.item)]

ordersGetById(event, tbl, key, clock) ==
  LET auth == ordersGuard(event, key, clock) IN
  IF auth.threw THEN [resp |-> serverError("Internal server error")]
  ELSE IF ~auth.isValid THEN [resp |-> auth.response]
  ELSE IF SendThrows THEN [resp |-> serverError("Internal server error")]
  ELSE LET order == get(tbl, Key(event.pathParameters.id, "order")) IN
       IF ~order.found THEN [resp |-> notFound("Order not found")]
       ELSE IF order.item.userId # auth.user.userId
       THEN [resp |-> unauthorized("Access denied")]
       ELSE [resp |-> success(order.item)]

OrdersCreate(p, headerSets, bodies, paths, waits) ==
  /\ CanStart(p)
  /\ \E h \in headerSets, b \in bodies, path \in paths, later \in SecondReading(waits) :
       LET event == Event(h, b, path)
           r == ordersCreate(event, table, secret, now, Uuid(uuid + 1), later) IN
       /\ r.drew => uuid < MaxUuid
       /\ ~r.drew => later = now
       /\ uuid' = IF r.drew THEN uuid + 1 ELSE uuid
       /\ now' = later
       /\ table' = r.table
       /\ Return(p, "orders.create", event, r.resp)
  /\ UNCHANGED <<secret, storeUp, registered, issued>>

OrdersGetAll(p, headerSets, bodies, paths) ==
  /\ CanStart(p)
  /\ \E h \in headerSets, b \in bodies, path \in paths :
       LET event == Event(h, b, path) IN
       Return(p, "orders.getAll", event, ordersGetAll(event, table, secret, now).resp)
  /\ UNCHANGED <<table, now, uuid, secret, storeUp, registered, issued>>

OrdersGetById(p, headerSets, bodies, paths) ==
  /\ CanStart(p)
  /\ \E h \in headerSets, b \in bodies, path \in paths :
       LET event == Event(h, b, path) IN
       Return(p, "orders.getById", event, ordersGetById(event, table, secret, now).resp)
  /\ UNCHANGED <<table, now, uuid, secret, storeUp, registered, issued>>

(* ------------------------- specifications ----------------------------- *)
None == {NoHeaders}
NoId == {NoPath}
NoBody == {BodyAbsent}

\* The auth handlers alone, on every register and login body.
NextAuth ==
  \/ \E p \in Procs : RegisterCheck(p, None, RegisterBodies, NoId)
  \/ \E p \in Procs : RegisterPut(p)
  \/ \E p \in Procs : Login(p, None, LoginBodies, NoId)
  \/ Tick
  \/ Deliver

SpecAuth == Init /\ [][NextAuth]_vars

\* The protected handlers, one invocation at a time, on every header shape, body
\* and path id; register and login hand out the tokens.
RegisterAnn == {BodyJson([email |-> EmailA, password |-> PwA, name |-> NameAnn])}
LoginAnn == {BodyJson([email |-> EmailA, password |-> PwA])}
First == {1}

NextGuard ==
  \/ \E p \in First : RegisterCheck(p, None, RegisterAnn, NoId)
  \/ \E p \in First : RegisterPut(p)
  \/ \E p \in First : Login(p, None, LoginAnn, NoId)
  \/ \E p \in First : ProductsCreate(p, HeaderSets(Presentable), ProductBodies, NoId, Still)
  \/ \E p \in First : ProductsUpdateCheck(p, HeaderSets(Presentable), UpdateBodies, PathIds)
  \/ \E p \in First : ProductsUpdateWrite(p)
  \/ \E p \in First : ProductsDeleteCheck(p, HeaderSets(Presentable), NoBody, PathIds)
  \/ \E p \in First : ProductsDeleteRemove(p)
  \/ \E p \in First : OrdersCreate(p, HeaderSets(Presentable), OrderBodies, NoId, Still)
  \/ \E p \in First : OrdersGetAll(p, HeaderSets(Presentable), NoBody, NoId)
  \/ \E p \in First : OrdersGetById(p, HeaderSets(Presentable), NoBody, PathIds)
  \/ Tick
  \/ Deliver

SpecGuard == Init /\ [][NextGuard]_vars

\* Every handler and any interleaving of the invocations, on the requests of
\* well-behaved callers and a few malformed ones.
RegisterSome ==
  {BodyJson([email |-> EmailA, password |-> pw, name |-> NameAnn]) : pw \in Passwords}
  \cup {BodyMalformed}
LoginSome == {BodyJson([email |-> EmailA, password |-> pw]) : pw \in Passwords}
Sent == PlainHeaderSets(issued)

Next ==
  \/ \E p \in Procs : RegisterCheck(p, None, RegisterSome, NoId)
  \/ \E p \in Procs : RegisterPut(p)
  \/ \E p \in Procs : Login(p, None, LoginSome, NoId)
  \/ \E p \in Procs : ProductsCreate(p, Sent, {BodyJson(ProductPen), BodyMalformed}, NoId, Stepping)
  \/ \E p \in Procs : ProductsGetAll(p)
  \/ \E p \in Procs : ProductsGetById(p, None, NoBody, PathIds)
  \/ \E p \in Procs : ProductsUpdateCheck(p, Sent, {BodyJson([stock |-> Num(Whole(5))])}, PathIds)
  \/ \E p \in Procs : ProductsUpdateWrite(p)
  \/ \E p \in Procs : ProductsDeleteCheck(p, Sent, NoBody, PathIds)
  \/ \E p \in Procs : ProductsDeleteRemove(p)
  \/ \E p \in Procs : OrdersCreate(p, Sent, {BodyJson([items |-> <<ItemPen>>,
                                                       shippingAddress |-> AddressHome])}, NoId, Stepping)
  \/ \E p \in Procs : OrdersGetAll(p, Sent, NoBody, NoId)
  \/ \E p \in Procs : OrdersGetById(p, Sent, NoBody, PathIds)
  \/ Tick
  \/ Deliver

Spec == Init /\ [][Next]_vars

\* The order handlers for two registered users, on order bodies of every shape.
RegisterTwo == {BodyJson([email |-> e, password |-> PwA, name |-> NameAnn]) : e \in Emails}
ItemBig == [productId |-> Uuid(1), quantity |-> Num(Whole(3)), price |-> Num(MaxSafeInteger)]
\* 4503599627370496 (2^52) and 0.25
ItemLarge ==
  [productId |-> Uuid(1), quantity |-> Num(Whole(1)),
   price |-> Num([neg |-> FALSE, mant |-> Zeros(52) \o <<1>>, frac |-> 0])]
ItemQuarter == [productId |-> Uuid(2), quantity |-> Num(Whole(1)), price |-> Num(Dyadic(1, 2))]
OrderInputs ==
  OrderBodies
  \cup {BodyJson([items |-> <<ItemLarge, ItemQuarter>>, shippingAddress |-> AddressHome])}
  \cup {BodyJson([items |-> <<item>>, shippingAddress |-> AddressHome]) :
          item \in {ItemBig,
                    [ItemPen EXCEPT !.quantity = NumStr(Whole(2))],
                    [ItemPen EXCEPT !.quantity = Num(Dyadic(3, 1))],
                    [ItemPen EXCEPT !.price = Num(Whole(0))],
                    [ItemPen EXCEPT !.price = NotNumeric],
                    [ItemPen EXCEPT !.price = Num(Plus(MaxSafeInteger, Whole(1)))],
                    [quantity |-> Num(Whole(2)), price |-> Num(Dyadic(3, 1))]}}
  \cup {BodyJson([items |-> <<ItemPen>>,
                  shippingAddress |-> [k \in DOMAIN AddressHome \ {"city"} |-> AddressHome[k]]])}

NextOrders ==
  \/ \E p \in Procs : RegisterCheck(p, None, RegisterTwo, NoId)
  \/ \E p \in Procs : RegisterPut(p)
  \/ \E p \in Procs : OrdersCreate(p, Sent, OrderInputs, NoId, Still)
  \/ \E p \in Procs : OrdersGetAll(p, Sent, NoBody, NoId)
  \/ \E p \in Procs : OrdersGetById(p, Sent, NoBody, PathIds)
  \/ Deliver

SpecOrders == Init /\ [][NextOrders]_vars


\* The product handlers, one invocation at a time, on product bodies of every shape.
ProductInputs ==
  ProductBodies
  \cup {BodyJson([ProductPen EXCEPT !.price = NumStr(Dyadic(3, 1)), !.stock = NumStr(Whole(10))]),
        BodyJson([ProductPen EXCEPT !.stock = Num(Dyadic(3, 1))]),
        BodyJson([ProductPen EXCEPT !.stock = Num(Whole(0 - 1))]),
        BodyJson([ProductPen EXCEPT !.price = Num(Whole(0 - 2))]),
        BodyJson([ProductPen EXCEPT !.price = NotNumeric]),
        BodyJson([price |-> Num(Dyadic(3, 1)), category |-> "office", stock |-> Num(Whole(10))]),
        BodyJson([name |-> "Pen", price |-> Num(Dyadic(3, 1)), stock |-> Num(Whole(10))]),
        BodyJson([name |-> "Pen", category |-> "office", stock |-> Num(Whole(10))])}
UpdateInputs ==
  UpdateBodies
  \cup {BodyJson([stock |-> NumStr(Whole(7))]), BodyJson([stock |-> Num(Dyadic(3, 1))]),
        BodyJson([price |-> Num(Whole(0))]), BodyJson([type |-> "order"]),
        BodyJson([stock |-> Num(Whole(5)), createdAt |-> 0])}

NextProducts ==
  \/ \E p \in First : RegisterCheck(p, None, RegisterAnn, NoId)
  \/ \E p \in First : RegisterPut(p)
  \/ \E p \in First : ProductsCreate(p, Sent, ProductInputs, NoId, Stepping)
  \/ \E p \in First : ProductsGetAll(p)
  \/ \E p \in First : ProductsGetById(p, None, NoBody, PathIds)
  \/ \E p \in First : ProductsUpdateCheck(p, Sent, UpdateInputs, PathIds)
  \/ \E p \in First : ProductsUpdateWrite(p)
  \/ \E p \in First : ProductsDeleteCheck(p, Sent, NoBody, PathIds)
  \/ \E p \in First : ProductsDeleteRemove(p)
  \/ Deliver

SpecProducts == Init /\ [][NextProducts]_vars

\* Every handler under any interleaving of the invocations of one user, with
\* the clock standing still: what the writes of one request do to the records
\* of another.
OrderPair ==
  {BodyJson([items |-> <<it>>, shippingAddress |-> AddressHome]) : it \in {ItemPen, ItemInk}}

NextInterleaved ==
  \/ \E p \in Procs : RegisterCheck(p, None, RegisterAnn, NoId)
  \/ \E p \in Procs : RegisterPut(p)
  \/ \E p \in Procs : Login(p, None, LoginAnn, NoId)
  \/ \E p \in Procs : ProductsCreate(p, Sent, {BodyJson(ProductPen)}, NoId, Still)
  \/ \E p \in Procs : ProductsGetAll(p)
  \/ \E p \in Procs : ProductsGetById(p, None, NoBody, PathIds)
  \/ \E p \in Procs : ProductsUpdateCheck(p, Sent, {BodyJson([stock |-> Num(Whole(5))])}, PathIds)
  \/ \E p \in Procs : ProductsUpdateWrite(p)
  \/ \E p \in Procs : ProductsDeleteCheck(p, Sent, NoBody, PathIds)
  \/ \E p \in Procs : ProductsDeleteRemove(p)
  \/ \E p \in Procs : OrdersCreate(p, Sent, OrderPair, NoId, Still)
  \/ \E p \in Procs : OrdersGetAll(p, Sent, NoBody, NoId)
  \/ \E p \in Procs : OrdersGetById(p, Sent, NoBody, PathIds)
  \/ Deliver

SpecInterleaved == Init /\ [][NextInterleaved]_vars

\* Updates of one product by concurrent invocations, with payloads that name
\* different fields.
DisjointUpdates ==
  {BodyJson([stock |-> Num(Whole(5))]), BodyJson([price |-> Num(Whole(2)), name |-> "Pencil"])}

NextUpdates ==
  \/ \E p \in Procs : RegisterCheck(p, None, RegisterAnn, NoId)
  \/ \E p \in Procs : RegisterPut(p)
  \/ \E p \in Procs : ProductsCreate(p, Sent, {BodyJson(ProductPen)}, NoId, Still)
  \/ \E p \in Procs : ProductsGetById(p, None, NoBody, PathIds)
  \/ \E p \in Procs : ProductsUpdateCheck(p, Sent, DisjointUpdates, PathIds)
  \/ \E p \in Procs : ProductsUpdateWrite(p)
  \/ Deliver

SpecUpdates == Init /\ [][NextUpdates]_vars

\* Every handler, one invocation at a time, with a store that comes and goes
\* and with bodies that are missing, null or not JSON.
Outage ==
  /\ last = Idle
  /\ storeUp
  /\ storeUp' = FALSE
  /\ UNCHANGED <<table, now, uuid, secret, registered, issued, pc, loc, last>>

Recover ==
  /\ last = Idle
  /\ ~storeUp
  /\ storeUp' = TRUE
  /\ UNCHANGED <<table, now, uuid, secret, registered, issued, pc, loc, last>>

Broken == {BodyAbsent, BodyNull, BodyMalformed}
WithAndWithout == PlainHeaderSets(issued)
\* The ids handed out, and an id that is somebody's email.
IdsAndEmail == PathIds \cup {[id |-> EmailA.text]}

RegisterOrBroken ==
  RegisterAnn \cup Broken
  \cup {BodyJson([email |-> EmailBad, password |-> PwA, name |-> NameAnn])}
LoginOrBroken ==
  LoginSome \cup Broken \cup {BodyJson([email |-> EmailA, password |-> NoVal])}
ProductOrBroken == ProductBodies \cup Broken
UpdateOrBroken == UpdateBodies \cup Broken
OrderOrBroken == OrderBodies \cup Broken

NextFaults ==
  \/ \E p \in First : RegisterCheck(p, None, RegisterOrBroken, NoId)
  \/ \E p \in First : RegisterPut(p)
  \/ \E p \in First : Login(p, None, LoginOrBroken, NoId)
  \/ \E p \in First : ProductsCreate(p, WithAndWithout, ProductOrBroken, NoId, Still)
  \/ \E p \in First : ProductsGetAll(p)
  \/ \E p \in First : ProductsGetById(p, None, NoBody, IdsAndEmail)
  \/ \E p \in First : ProductsUpdateCheck(p, WithAndWithout, UpdateOrBroken, IdsAndEmail)
  \/ \E p \in First : ProductsUpdateWrite(p)
  \/ \E p \in First : ProductsDeleteCheck(p, WithAndWithout, NoBody, IdsAndEmail)
  \/ \E p \in First : ProductsDeleteRemove(p)
  \/ \E p \in First : OrdersCreate(p, WithAndWithout, OrderOrBroken, NoId, Still)
  \/ \E p \in First : OrdersGetAll(p, WithAndWithout, NoBody, NoId)
  \/ \E p \in First : OrdersGetById(p, WithAndWithout, NoBody, IdsAndEmail)
  \/ Outage
  \/ Recover
  \/ Deliver

SpecFaults == Init /\ [][NextFaults]_vars

(* ------------------------------ claims -------------------------------- *)
Protected ==
  {"products.create", "products.update", "products.delete",
   "orders.create", "orders.getAll", "orders.getById"}
ProductGuarded == {"products.create", "products.update", "products.delete"}

NotBearer(c) == c # BearerChunk
\* The header with every "Bearer " taken out of it.
Stripped(h) == SelectSeq(h, NotBearer)
\* s is one token, signed with the server's secret, not yet expired.
GoodTokenAt(s, clock) ==
  /\ Len(s) = 1
  /\ "jwt" \in DOMAIN s[1]
  /\ Truthy(secret)
  /\ s[1].jwt.key = secret
  /\ clock < s[1].jwt.exp
GoodToken(s) == GoodTokenAt(s, now)
HeaderRead(headers) ==
  IF headers.Authorization.defined /\ headers.Authorization.str # <<>>
  THEN headers.Authorization ELSE headers.authorization
\* No Authorization header, or no token in it that verifies.
AuthFails(event) ==
  \/ ~HeaderRead(event.headers).defined
  \/ ~GoodToken(Stripped(HeaderRead(event.headers).str))
\* A request is received and answered in one step; authorization is decided on
\* receipt, so that is when the clock is read.
Answered == last = Idle /\ last' # Idle /\ pc' = pc

\* C1: a protected operation whose request carries no Authorization header, or
\* no token that verifies, answers 401 and leaves the table as it was, whatever
\* the body and the path id are (a body that could not be parsed included), and
\* such a request never gets as far as a store call (authorization is decided
\* when the request is received).
C1_Step ==
  /\ (Answered /\ last'.handler \in Protected /\ AuthFails(last'.event))
        => (last'.resp.statusCode = 401 /\ table' = table)
  /\ \A p \in Procs :
        (pc[p] = "idle" /\ pc'[p] # "idle" /\ loc'[p].handler \in Protected)
           => ~AuthFails(loc'[p].event)
C1_UnauthorizedWritesNothing == [][C1_Step]_vars

C1_Witness ==
  /\ last # Idle
  /\ last.handler = "products.create"
  /\ last.event.body.kind = "malformed"
  /\ HeaderRead(last.event.headers).defined
  /\ AuthFails(last.event)
  /\ last.resp.statusCode = 401
  /\ DOMAIN table # {}

\* C2: for every Authorization header the guard of the order handlers accepts the
\* request exactly when authenticateToken accepts it.
C2_OneAuthorizeContract ==
  \A hs \in HeaderSets(Presentable) :
    LET event == Event(hs, BodyAbsent, NoPath) IN
    ordersGuard(event, secret, now).isValid = authenticateToken(event, secret, now).isValid

\* C3: authenticateToken answers isValid with the token's claims exactly when the
\* header read (Authorization, else authorization) is there, starts with
\* "Bearer " and what follows verifies; otherwise it answers not valid with a 401
\* response; it never answers with both a user and a response, and the product
\* handlers answer 401 exactly in the second case.
C3_Accepts(headers, clock) ==
  LET h == HeaderRead(headers) IN
  /\ h.defined
  /\ h.str # <<>>
  /\ Head(h.str) = BearerChunk
  /\ GoodTokenAt(Tail(h.str), clock)

C3_AuthenticateToken ==
  /\ last = Idle => \A hs \in HeaderSets(Presentable) :
       LET r == authenticateToken(Event(hs, BodyAbsent, NoPath), secret, now)
           h == HeaderRead(hs) IN
       /\ ~r.threw
       /\ ~({"user", "response"} \subseteq DOMAIN r)
       /\ r.isValid = C3_Accepts(hs, now)
       /\ r.isValid => /\ "user" \in DOMAIN r
                       /\ r.user.userId = h.str[2].jwt.userId
                       /\ r.user.email = h.str[2].jwt.email
                       /\ r.user.exp = h.str[2].jwt.exp
       /\ ~r.isValid => /\ "response" \in DOMAIN r
                        /\ r.response.statusCode = 401
                        /\ ~r.response.body.success
  /\ (last # Idle /\ last.handler \in ProductGuarded)
        => (last.resp.statusCode = 401 <=> ~C3_Accepts(last.event.headers, last.received))

C3_Witness ==
  /\ last # Idle
  /\ last.handler = "products.create"
  /\ ~last.event.headers.Authorization.defined
  /\ C3_Accepts(last.event.headers, last.received)
  /\ last.resp.statusCode = 201

\* C4: a token of the server whose expiry has passed makes every protected
\* operation answer 401; both verifyToken functions answer null, and never raise,
\* for whatever does not verify, the secret missing included; every token handed
\* out expires 24 hours after it was issued.
ExpiredToken(event) ==
  LET h == HeaderRead(event.headers) IN
  /\ h.defined
  /\ Len(Stripped(h.str)) = 1
  /\ "jwt" \in DOMAIN Stripped(h.str)[1]
  /\ Stripped(h.str)[1].jwt.key = ServerKey
  /\ last.received >= Stripped(h.str)[1].jwt.exp

C4_ExpiredIsUnauthorized ==
  /\ (last # Idle /\ last.handler \in Protected /\ ExpiredToken(last.event))
        => last.resp.statusCode = 401
  /\ (last # Idle /\ last.handler \in Protected /\ ~Truthy(secret))
        => last.resp.statusCode = 401
  /\ last = Idle => \A s \in HeaderStrings(Presentable) :
       /\ ~verifyToken(s, secret, now).threw
       /\ ~ordersVerifyToken(s, secret, now).threw
       /\ ~GoodToken(s) => /\ verifyToken(s, secret, now).value.isNull
                           /\ ordersVerifyToken(s, secret, now).value.isNull
  /\ \A t \in issued : t.exp = t.iat + TokenLifetime

C4_Witness ==
  /\ last # Idle
  /\ last.handler = "products.update"
  /\ last.resp.statusCode = 401
  /\ \E t \in issued :
       /\ last.event.headers.Authorization = Str(<<BearerChunk>> \o Jwt(t))
       /\ last.received >= t.exp
UserKeys == {k \in DOMAIN table : k[2] = "user"}
WellFormedRegister(event) ==
  event.body.kind = "json" /\ ~registerSchema(event.body.value).isError
WellFormedLogin(event) ==
  event.body.kind = "json" /\ ~loginSchema(event.body.value).isError
EmailOf(event) == event.body.value.email

\* C5: a register request whose email already has a User record when it arrives
\* answers 400 (with 'User already exists' when the request is otherwise valid)
\* and no token, never gets as far as the put, and leaves the table as it was;
\* every record sits under its own (id, type), so an email has at most one User.
C5_Step ==
  /\ (Answered /\ last'.handler = "register" /\ last'.event.body.kind = "json"
        /\ EmailOf(last'.event).defined
        /\ Key(EmailOf(last'.event).text, "user") \in DOMAIN table)
       => /\ last'.resp.statusCode = 400
          /\ "data" \notin DOMAIN last'.resp.body
          /\ WellFormedRegister(last'.event)
               => last'.resp = badRequest("User already exists")
          /\ table' = table
          /\ issued' = issued
  /\ \A p \in Procs :
       (pc[p] = "idle" /\ pc'[p] = "register_put")
          => Key(EmailOf(loc'[p].event).text, "user") \notin DOMAIN table
C5_State ==
  /\ \A k \in DOMAIN table : KeyOf(table[k]) = k
  /\ \A e \in Emails :
       Cardinality({k \in UserKeys : table[k].id = e.text}) <= 1
C5_RegisterConflict == []C5_State /\ [][C5_Step]_vars

C5_Witness ==
  /\ last # Idle
  /\ last.handler = "register"
  /\ last.resp = badRequest("User already exists")
  /\ Key(EmailOf(last.event).text, "user") \in DOMAIN table

\* C6: the existence check and the put of register are two store calls. A
\* registration that passed the check completes whatever was written since: with
\* the secret set it answers 201 with a token for a userId no token carried
\* before, its record replaces the one stored under the email, and no Conflict
\* is reported. (The witness is the race: two registrations of one email, both
\* answered 201, two userIds, the later record over the earlier.)
C6_Step ==
  \A p \in Procs :
    (pc[p] = "register_put" /\ pc'[p] = "idle" /\ Truthy(secret))
      => LET v == loc[p].event.body.value
             data == last'.resp.body.data IN
         /\ last'.resp.statusCode = 201
         /\ data.token.email = v.email.text
         /\ data.token.userId = data.user.userId
         /\ \A t \in issued : t.userId # data.token.userId
         /\ table'[Key(v.email.text, "user")].userId = data.user.userId
         /\ bcryptCompare(v.password, table'[Key(v.email.text, "user")].password)
C6_CheckThenPut == [][C6_Step]_vars

C6_Witness ==
  /\ last # Idle
  /\ last.handler = "register"
  /\ last.resp.statusCode = 201
  /\ last.received = now
  /\ \E t \in issued :
       /\ t.email = last.resp.body.data.user.email
       /\ t.userId # last.resp.body.data.user.userId
       /\ t.iat = now
  /\ Cardinality(registered) = 2
  /\ table[Key(last.resp.body.data.user.email, "user")].userId
        = last.resp.body.data.user.userId
\* C7: a stored User record is never replaced or removed: with the signing
\* secret set (so that registrations return 201), whatever request takes a step, every User record of the table is still there afterwards with
\* the userId, name and password hash it had.
C7_Step ==
  Truthy(secret) =>
    \A k \in UserKeys :
      /\ k \in DOMAIN table'
      /\ table'[k].userId = table[k].userId
      /\ table'[k].name = table[k].name
      /\ table'[k].password = table[k].password
C7_UserRecordNeverChanges == [][C7_Step]_vars

PairOf(event) ==
  [email |-> event.body.value.email.text, password |-> event.body.value.password.text]

\* C8: with the signing secret set, a well-formed login answers 200 with a
\* token and the view {userId, email, name} exactly when a registration with
\* that email and that password returned 201 before, and 401 otherwise.
C8_LoginIffRegistered ==
  (last # Idle /\ last.handler = "login" /\ Truthy(secret)
     /\ WellFormedLogin(last.event))
    => IF PairOf(last.event) \in registered
       THEN /\ last.resp.statusCode = 200
            /\ DOMAIN last.resp.body.data = {"token", "user"}
            /\ DOMAIN last.resp.body.data.user = {"userId", "email", "name"}
            /\ last.resp.body.data.user.email = PairOf(last.event).email
            /\ last.resp.body.data.token.userId = last.resp.body.data.user.userId
       ELSE last.resp.statusCode = 401

WrongPassword(event, tbl) ==
  LET user == get(tbl, Key(EmailOf(event).text, "user")) IN
  user.found /\ ~bcryptCompare(event.body.value.password, user.item.password)

\* C9: take any well-formed login whose email has a User record and whose
\* password is wrong, and run it a second time against the same table without
\* that record: both runs answer the same 401 'Invalid credentials', and
\* neither issues a token. No login is ever answered 404.
C9_LoginEnumeration ==
  /\ last = Idle =>
       \A b \in LoginBodies :
         LET event == Event(NoHeaders, b, NoPath) IN
         (WellFormedLogin(event) /\ WrongPassword(event, table))
           => LET known == login(event, table, secret, now)
                  unknown == login(event, remove(table, Key(EmailOf(event).text, "user")),
                                   secret, now) IN
              /\ known.resp = unauthorized("Invalid credentials")
              /\ unknown = known
  /\ (last # Idle /\ last.handler = "login") => last.resp.statusCode # 404
  /\ (last # Idle /\ last.handler = "login" /\ WellFormedLogin(last.event)
        /\ Key(EmailOf(last.event).text, "user") \notin DOMAIN table)
       => last.resp = unauthorized("Invalid credentials")

C9_Witness ==
  /\ last # Idle
  /\ last.handler = "login"
  /\ WellFormedLogin(last.event)
  /\ WrongPassword(last.event, table)
  /\ last.resp = unauthorized("Invalid credentials")
  /\ \E e \in Emails : Key(e.text, "user") \notin DOMAIN table

HasPassword(event) == event.body.kind = "json" /\ event.body.value.password.defined

\* C10: a success answer of register or login carries exactly {token, user},
\* the user being exactly {userId, email, name} and the token's claims holding
\* no password; an error answer carries a message that is not the password sent;
\* and every User record holds the bcrypt hash of its password at the fixed cost.
C10_NoPasswordInResponse ==
  /\ (last # Idle /\ last.handler \in {"register", "login"})
       => IF last.resp.statusCode \in {200, 201}
          THEN /\ DOMAIN last.resp.body = {"success", "data"}
               /\ DOMAIN last.resp.body.data = {"token", "user"}
               /\ DOMAIN last.resp.body.data.user = {"userId", "email", "name"}
               /\ "password" \notin DOMAIN last.resp.body.data.token
               /\ \A f \in {"userId", "email", "name"} :
                    last.resp.body.data.user[f] # last.event.body.value.password.text
          ELSE /\ DOMAIN last.resp.body = {"success", "error"}
               /\ HasPassword(last.event)
                    => last.resp.body.error # last.event.body.value.password.text
  /\ \A k \in UserKeys :
       /\ DOMAIN table[k].password = {"bcrypt", "rounds"}
       /\ table[k].password.rounds = BcryptRounds
       /\ DOMAIN table[k] = {"id", "type", "userId", "name", "password", "createdAt"}

C10_Witness ==
  /\ last # Idle
  /\ last.handler = "login"
  /\ last.resp.statusCode = 200
  /\ \E k \in UserKeys :
       /\ k[1] = last.resp.body.data.user.email
       /\ bcryptCompare(last.event.body.value.password, table[k].password)
\* The request came with "Bearer " and a token that verified when it was received.
ValidCaller(rec) == C3_Accepts(rec.event.headers, rec.received)
\* The claims of that token.
Caller(rec) == HeaderRead(rec.event.headers).str[2].jwt
OrderKeys == {k \in DOMAIN table : k[2] = "order"}

\* C11: orders.getById for a caller with a valid token answers 404 when no order
\* has the id, 200 with the order when the order's userId is the caller's, and
\* otherwise 401 without any data.
C11_GetByIdOwnership ==
  (last # Idle /\ last.handler = "orders.getById" /\ ValidCaller(last))
    => LET key == Key(last.event.pathParameters.id, "order") IN
       IF key \notin DOMAIN table THEN last.resp = notFound("Order not found")
       ELSE IF table[key].userId = Caller(last).userId
       THEN last.resp = success(table[key])
       ELSE /\ last.resp.statusCode = 401
            /\ DOMAIN last.resp.body = {"success", "error"}
            /\ last.resp.body.error = "Access denied"

C11_Witness ==
  /\ last # Idle
  /\ last.handler = "orders.getById"
  /\ ValidCaller(last)
  /\ last.resp.statusCode = 401
  /\ \E k \in OrderKeys :
       /\ k[1] = last.event.pathParameters.id
       /\ table[k].userId # Caller(last).userId
       /\ \E t \in issued : t.userId = table[k].userId

\* C12: orders.getAll for a caller with a valid token answers 200 with exactly
\* the stored records of type 'order' whose userId is the caller's.
C12_GetAllOwnOrders ==
  (last # Idle /\ last.handler = "orders.getAll" /\ ValidCaller(last))
    => /\ last.resp.statusCode = 200
       /\ \A o \in last.resp.body.data :
            /\ KeyOf(o) \in DOMAIN table
            /\ table[KeyOf(o)] = o
            /\ o.type = "order"
            /\ o.userId = Caller(last).userId
       /\ \A k \in OrderKeys :
            table[k].userId = Caller(last).userId => table[k] \in last.resp.body.data

RECURSIVE ExactTotal(_)
ExactTotal(items) ==
  IF items = <<>> THEN Whole(0)
  ELSE ExactPlus(ExactTimes(ToNumber(Head(items).price), ToNumber(Head(items).quantity)),
                 ExactTotal(Tail(items)))

\* C13: the totalAmount of every stored order is the sum of price x quantity of
\* its items.
C13_TotalIsSum ==
  \A k \in OrderKeys : table[k].totalAmount = Num(ExactTotal(table[k].items))

\* C14: no step changes or removes a stored order; an order comes into the table
\* by orders.create only, with the caller's userId and the status 'pending'.
C14_Step ==
  /\ \A k \in OrderKeys : k \in DOMAIN table' /\ table'[k] = table[k]
  /\ \A k \in DOMAIN table' \ DOMAIN table :
       k[2] = "order"
         => /\ last'.handler = "orders.create"
            /\ last'.resp = created(table'[k])
            /\ table'[k].userId = Caller(last').userId
            /\ table'[k].status = "pending"
C14_OrderImmutable == [][C14_Step]_vars

C14_Witness ==
  /\ last # Idle
  /\ last.handler = "products.delete"
  /\ last.resp.statusCode = 200
  /\ OrderKeys # {}

IsIntegerAtLeast(v, n) == v.type = "number" /\ IsInteger(v.n) /\ AtLeast(v.n, n)
IsPositiveNumber(v) == v.type = "number" /\ IsPositive(v.n)

\* C15: every stored order has at least one item, every item a productId, an
\* integer quantity >= 1 and a price > 0, and the shippingAddress has street,
\* city, state, zipCode and country.
C15_StoredOrderWellFormed ==
  \A k \in OrderKeys :
    LET o == table[k] IN
    /\ Len(o.items) >= 1
    /\ \A i \in 1..Len(o.items) :
         /\ ItemKeys \subseteq DOMAIN o.items[i]
         /\ IsIntegerAtLeast(o.items[i].quantity, 1)
         /\ IsPositiveNumber(o.items[i].price)
    /\ \A i \in 1..Len(AddressKeys) : AddressKeys[i] \in DOMAIN o.shippingAddress
ProductRecords == {k \in DOMAIN table : k[2] = "product"}

\* C16: products.update never brings a record into existence: every stored
\* product has the name, price, category, stock and createdAt a create gave it.
C16_UpdateNeverCreates ==
  \A k \in ProductRecords :
    {"name", "price", "category", "stock", "createdAt"} \subseteq DOMAIN table[k]

\* C17: an update whose payload has a field outside name, description, price,
\* category, stock and imageUrl (id and type among them) is answered 400 when it
\* is received, without a store call and with the table as it was; the payload
\* of an update that goes on to its write names none of these fields; every
\* record stays under its own (id, type).
C17_Step ==
  /\ (Answered /\ last'.handler = "products.update" /\ ValidCaller(last')
        /\ last'.event.body.kind = "json"
        /\ ~(DOMAIN last'.event.body.value \subseteq ProductKeys))
       => (last'.resp.statusCode = 400 /\ table' = table)
  /\ \A p \in Procs :
       (pc[p] = "idle" /\ pc'[p] = "update_write")
          => DOMAIN loc'[p].event.body.value \subseteq ProductKeys
  /\ \A k \in DOMAIN table' : KeyOf(table'[k]) = k
C17_UpdateKeepsKey == [][C17_Step]_vars

C17_Witness ==
  /\ last # Idle
  /\ last.handler = "products.update"
  /\ ValidCaller(last)
  /\ last.event.body.kind = "json"
  /\ "id" \in DOMAIN last.event.body.value
  /\ last.resp.statusCode = 400
  /\ Key(last.event.pathParameters.id, "product") \in DOMAIN table

\* C18: the write of an update with payload P changes the record it addresses,
\* in the fields of P and updatedAt only, and answers 200 with that record: the
\* record was there before, every field of P has P's value, every other field
\* is as it was, and no other record is added, changed or removed.
C18_Step ==
  \A p \in Procs :
    (pc[p] = "update_write" /\ pc'[p] = "idle")
      => LET key == Key(loc[p].event.pathParameters.id, "product")
             P == loc[p].event.body.value IN
         /\ last'.resp = success(table'[key])
         /\ \A f \in DOMAIN P : table'[key][f] = P[f]
         /\ key \in DOMAIN table
         /\ DOMAIN table' = DOMAIN table
         /\ DOMAIN table'[key] = DOMAIN table[key] \cup DOMAIN P \cup {"updatedAt"}
         /\ \A f \in DOMAIN table[key] \ (DOMAIN P \cup {"updatedAt"}) :
              table'[key][f] = table[key][f]
         /\ \A k \in DOMAIN table \ {key} : table'[k] = table[k]
C18_UpdateFrame == [][C18_Step]_vars

\* C19: the stored updatedAt of a product never becomes smaller.
C19_Step ==
  \A k \in ProductRecords :
    k \in DOMAIN table' => table'[k].updatedAt >= table[k].updatedAt
C19_UpdatedAtMonotonic == [][C19_Step]_vars

\* C20: every stored product has a price > 0 and an integer stock >= 0.
C20_StoredProductInRange ==
  \A k \in ProductRecords :
    /\ IsPositiveNumber(table[k].price)
    /\ IsIntegerAtLeast(table[k].stock, 0)

\* What getById answers for that id on that table.
GetByIdOf(id, tbl) == productsGetById(Event(NoHeaders, BodyAbsent, [id |-> id]), tbl).resp

\* The record repeats the input, with the generated id and the type 'product'.
RepeatsInput(rec, input, id) ==
  /\ DOMAIN rec = DOMAIN input \cup {"id", "type", "createdAt", "updatedAt"}
  /\ \A f \in DOMAIN input : rec[f] = input[f]
  /\ rec.id = id
  /\ rec.type = "product"

\* C21: after a product create answered 201, getById of the returned id answers
\* 200 with a record whose fields are those of the input plus the generated id
\* and type 'product', and whose createdAt equals its updatedAt.
C21_Step ==
  (Answered /\ last'.handler = "products.create" /\ last'.resp.statusCode = 201)
    => LET id == last'.resp.body.data.id
           got == GetByIdOf(id, table') IN
       /\ got.statusCode = 200
       /\ RepeatsInput(got.body.data, last'.event.body.value, id)
       /\ got.body.data.createdAt = got.body.data.updatedAt
C21_CreateThenGetById == [][C21_Step]_vars

ProductKeyOf(event) == Key(event.pathParameters.id, "product")
DeleteAck == success([message |-> "Product deleted successfully"])

\* C22: a delete by an authorized caller answers 404 and changes nothing when
\* there is no product at the id; when there is one it goes on to remove it,
\* answers the 200 acknowledgement and takes exactly that record out of the
\* table; and no removed id comes back (a new product has a fresh id), so a
\* second delete of the same id is a delete of an absent one.
C22_Step ==
  /\ (Answered /\ last'.handler = "products.delete" /\ ValidCaller(last'))
       => /\ ProductKeyOf(last'.event) \notin DOMAIN table
          /\ last'.resp = notFound("Product not found")
          /\ table' = table
  /\ \A p \in Procs :
       (pc[p] = "idle" /\ pc'[p] = "delete_remove")
         => ProductKeyOf(loc'[p].event) \in DOMAIN table
  /\ \A p \in Procs :
       (pc[p] = "delete_remove" /\ pc'[p] = "idle")
         => /\ last'.handler = "products.delete"
            /\ last'.resp = DeleteAck
            /\ DOMAIN table' = DOMAIN table \ {ProductKeyOf(loc[p].event)}
            /\ \A k \in DOMAIN table' : table'[k] = table[k]
  /\ \A k \in DOMAIN table' \ DOMAIN table :
       k[2] = "product" => uuid' = uuid + 1 /\ k[1] = Uuid(uuid')
C22_DeleteTwice == [][C22_Step]_vars

\* A product that was created and deleted is asked to be deleted again.
C22_Witness ==
  /\ last # Idle
  /\ last.handler = "products.delete"
  /\ ValidCaller(last)
  /\ last.resp.statusCode = 404
  /\ last.event.pathParameters.id = Uuid(2)
  /\ uuid >= 2

Statuses == {200, 201, 400, 401, 404, 500}
GenericError == [success |-> FALSE, error |-> "Internal server error"]
NeedsNoToken == {"register", "login", "products.getAll", "products.getById"}
NeedsBody == {"register", "login", "products.create", "products.update", "orders.create"}

\* The body of the request passes the schema of its handler.
PassesSchema(rec) ==
  /\ rec.event.body.kind = "json"
  /\ CASE rec.handler = "register" -> ~registerSchema(rec.event.body.value).isError
       [] rec.handler = "login" -> ~loginSchema(rec.event.body.value).isError
       [] rec.handler = "products.create" -> ~productSchema(rec.event.body.value).isError
       [] rec.handler = "products.update" -> ~updateProductSchema(rec.event.body.value).isError
       [] rec.handler = "orders.create" -> ~orderSchema(rec.event.body.value).isError
       [] OTHER -> FALSE

\* The request gets as far as a call of the store.
ReachesStore(rec) ==
  /\ rec.handler \in NeedsNoToken \/ ValidCaller(rec)
  /\ rec.handler \in NeedsBody => PassesSchema(rec)

\* C23: every response has a status among 200, 201, 400, 401, 404 and 500; a
\* 500 carries the fixed message 'Internal server error' and nothing else; and
\* a request that gets as far as a store call while the store rejects calls
\* is answered with that 500, as is one whose pending store call is rejected.
C23_Step ==
  (last = Idle /\ last' # Idle)
    => /\ last'.resp.statusCode \in Statuses
       /\ last'.resp.statusCode = 500 => last'.resp.body = GenericError
       /\ (SendThrows /\ (pc' # pc \/ ReachesStore(last')))
            => last'.resp = serverError("Internal server error")
       /\ SendThrows => last'.resp.statusCode \in {400, 401, 500}
C23_NothingPropagates == [][C23_Step]_vars

\* An update by an authorized caller with a valid payload, answered while the
\* store rejects calls.
C23_Witness ==
  /\ last # Idle
  /\ SendThrows
  /\ last.handler = "products.update"
  /\ ValidCaller(last)
  /\ PassesSchema(last)
  /\ last.resp.statusCode = 500

\* The request is one its handler would look at the body of.
BodyIsRead(rec) ==
  /\ rec.handler \in NeedsBody
  /\ rec.handler \in NeedsNoToken \/ ValidCaller(rec)

\* C24: register, login, product create, product update and order create
\* answer 400 to a request (an authorized one, where a token is needed) whose
\* body is absent, is not JSON or does not pass the schema.
C24_Step ==
  (last = Idle /\ last' # Idle /\ BodyIsRead(last') /\ ~PassesSchema(last'))
    => last'.resp.statusCode = 400
C24_MalformedIsBadRequest == [][C24_Step]_vars

\* C25: the body of every response is {success: true, data} when the status is
\* 200 or 201 and {success: false, error} for every other status, never both
\* data and error and never neither.
C25_Envelope ==
  last # Idle
    => LET body == last.resp.body IN
       /\ last.resp.statusCode \in Statuses \cup {403}
       /\ body.success = (last.resp.statusCode \in {200, 201})
       /\ DOMAIN body = IF body.success THEN {"success", "data"} ELSE {"success", "error"}

\* A product that is not there was asked for.
C25_Witness ==
  /\ last # Idle
  /\ last.resp.statusCode = 404
  /\ last.handler = "products.getById"

KindOf(handler) ==
  IF handler \in {"register", "login"} THEN "user"
  ELSE IF handler \in {"orders.create", "orders.getAll", "orders.getById"} THEN "order"
  ELSE "product"
Only(tbl, kind) == [k \in {d \in DOMAIN tbl : d[2] = kind} |-> tbl[k]]
Differs(k) == k \notin DOMAIN table \/ k \notin DOMAIN table' \/ table[k] # table'[k]

\* C26: a step that adds, changes or removes a record is the answer of a handler
\* of that record's kind; and what a handler answers does not depend on the
\* records of the other kinds: it answers the same on the table with only the
\* records of its own kind, also for an id that is a registered email.
C26_Step ==
  /\ \A k \in DOMAIN table \cup DOMAIN table' :
       Differs(k) => last' # Idle /\ k[2] = KindOf(last'.handler)
  /\ last = Idle =>
       \A path \in IdsAndEmail, h \in WithAndWithout :
         LET event == Event(h, BodyJson([stock |-> Num(Whole(5))]), path)
             products == Only(table, "product")
             orders == Only(table, "order")
             users == Only(table, "user") IN
         /\ productsGetById(event, table) = productsGetById(event, products)
         /\ productsUpdateCheck(event, table, secret, now)
              = productsUpdateCheck(event, products, secret, now)
         /\ productsDeleteCheck(event, table, secret, now)
              = productsDeleteCheck(event, products, secret, now)
         /\ ordersGetById(event, table, secret, now) = ordersGetById(event, orders, secret, now)
         /\ \A b \in RegisterAnn :
              registerCheck(Event(h, b, path), table) = registerCheck(Event(h, b, path), users)
         /\ \A b \in LoginAnn :
              login(Event(h, b, path), table, secret, now)
                = login(Event(h, b, path), users, secret, now)
C26_KeySpaces == [][C26_Step]_vars

\* A product is asked for under the email of a registered user.
C26_Witness ==
  /\ last # Idle
  /\ last.handler = "products.getById"
  /\ last.event.pathParameters.id = EmailA.text
  /\ Key(EmailA.text, "user") \in DOMAIN table
  /\ last.resp.statusCode = 404

(* ------------------------------- C27 ---------------------------------- *)
IsSensitive(f) == \E i \in 1..Len(sensitiveFields) : sensitiveFields[i] = f

\* C27: every error a handler writes to the log is written as sanitizeError
\* returns it, and no top-level field of it named password, token, secret, key
\* or authorization has the value it had in the caught error.
C27_LoggedErrorsSanitized ==
  last # Idle =>
    \A i \in DOMAIN last.logged :
      LET line == last.logged[i]
          error == last.caught[1] IN
      /\ \E env \in NodeEnvs : line.error = sanitizeError(error, env)
      /\ \A f \in DOMAIN line.error.own :
           IsSensitive(f) /\ f \in DOMAIN error.own => line.error.own[f] # error.own[f]

(* ------------------------------- C28 ---------------------------------- *)
\* C28: for the payload of an update that was answered 200, in every order of
\* its keys: the i-th clause of the expression is #attr<i> = :val<i> (counting
\* from 0) and stands for the i-th field and its value, no two clauses share a
\* token, no token is a field name of the payload or one of #updatedAt and
\* :updatedAt, and the last clause is #updatedAt = :updatedAt, the only one
\* when the payload is empty.
C28_UpdateExpression ==
  last # Idle /\ last.handler = "products.update" /\ last.resp.statusCode = 200 =>
    LET updateData == last.event.body.value IN
    \A keys \in KeyOrders(updateData) :
      LET command == updateCommand(keys, updateData, last.resp.body.data.updatedAt)
          clauses == command.updateExpressions
          n == Len(keys) IN
      /\ Len(clauses) = n + 1
      /\ clauses[n + 1] = <<"#updatedAt", ":updatedAt">>
      /\ command.expressionAttributeNames["#updatedAt"] = "updatedAt"
      /\ command.expressionAttributeValues[":updatedAt"] = last.resp.body.data.updatedAt
      /\ \A i \in 1..n :
           /\ clauses[i] = <<"#attr" \o ToString(i - 1), ":val" \o ToString(i - 1)>>
           /\ command.expressionAttributeNames[clauses[i][1]] = keys[i]
           /\ command.expressionAttributeValues[clauses[i][2]] = updateData[keys[i]]
           /\ clauses[i][1] \notin DOMAIN updateData \cup {"#updatedAt"}
           /\ clauses[i][2] \notin DOMAIN updateData \cup {":updatedAt"}
           /\ \A j \in 1..n : i # j => clauses[i][1] # clauses[j][1] /\ clauses[i][2] # clauses[j][2]
      /\ DOMAIN command.expressionAttributeNames = {clauses[i][1] : i \in 1..(n + 1)}
      /\ DOMAIN command.expressionAttributeValues = {clauses[i][2] : i \in 1..(n + 1)}

\* An update of two fields was answered 200.
C28_Witness ==
  /\ last # Idle
  /\ last.handler = "products.update"
  /\ last.resp.statusCode = 200
  /\ Cardinality(DOMAIN last.event.body.value) = 2

(* ------------------------------- C29 ---------------------------------- *)
\* The invocation p answers 200 from the write of its update in this step.
UpdateWritten(p) ==
  /\ pc[p] = "update_write"
  /\ pc'[p] = "idle"
  /\ last'.resp.statusCode = 200

\* C29: between concurrent updates no written field is lost: an update that
\* answers 200 has stored the value of every field of its payload, and a field
\* of a stored product other than updatedAt changes only by the write of an
\* update that names it. So after two updates of the same product with
\* disjoint payloads that both answered 200, in either order and however their
\* look-ups and writes interleave, the record has the values of both.
C29_Step ==
  /\ \A p \in Procs :
       UpdateWritten(p) =>
         LET key == Key(loc[p].event.pathParameters.id, "product")
             P == loc[p].event.body.value IN
         \A f \in DOMAIN P : table'[key][f] = P[f]
  /\ \A k \in {d \in DOMAIN table \cap DOMAIN table' : d[2] = "product"} :
       \A f \in DOMAIN table[k] \ {"updatedAt"} :
         (f \notin DOMAIN table'[k] \/ table'[k][f] # table[k][f]) =>
           \E p \in Procs :
             /\ UpdateWritten(p)
             /\ k = Key(loc[p].event.pathParameters.id, "product")
             /\ f \in DOMAIN loc[p].event.body.value
C29_NoLostUpdate == [][C29_Step]_vars

\* The update of the stock has answered 200 while an update of price and name
\* of the same product is between its look-up and its write.
C29_Witness ==
  /\ last # Idle
  /\ last.handler = "products.update"
  /\ last.resp.statusCode = 200
  /\ DOMAIN last.event.body.value = {"stock"}
  /\ \E q \in Procs :
       /\ pc[q] = "update_write"
       /\ loc[q].event.pathParameters.id = last.event.pathParameters.id
       /\ DOMAIN loc[q].event.body.value = {"price", "name"}

(* ------------------------------- C30 ---------------------------------- *)
\* C30: a handler that answers with a status other than 200 and 201 leaves the
\* table as it was before the step that answers.
C30_Step ==
  (last' # Idle /\ last = Idle /\ last'.resp.statusCode \notin {200, 201}) => table' = table
C30_UnchangedOnError == [][C30_Step]_vars
====
